---- MODULE Spec2Model ----
(***************************************************************************)
(* A model of SiffROI: the ROI object (siffroi/roi.py), its construction,  *)
(* fusion, persistence to .h5roi files, and the shape-selection utilities  *)
(* (siffroi/utils/__init__.py).                                            *)
(*                                                                         *)
(* Python values are tagged records (field t); numpy arrays are records    *)
(* with a dtype, a shape and the row-major flattened data (booleans are    *)
(* 0/1).  An operation that raises returns Raise(<exception name>).        *)
(***************************************************************************)
EXTENDS Integers, Sequences, FiniteSets, TLC

VARIABLES
    rois,    \* the heap: the ROI objects alive, an object's reference is its index
    files,   \* the directory written by save: path |-> contents of the .h5roi file
    saved,   \* history: path |-> the object as it was when save wrote that path
    ret,     \* the last call: what was called, with what, and what came back
    shapes   \* the list of shapes handed to the shape-selection utilities

vars == <<rois, files, saved, ret, shapes>>

----------------------------------------------------------------------------
(* Bounds                                                                  *)

\* ROI objects the caller constructs and holds (object specification)
MaxROIs == 2
\* length of the list handed to from_rois
MaxList == 3
\* ROI objects the caller holds (persistence specification)
MaxLive == 1
\* length of the list of shapes handed to the shape-selection utilities
MaxShapes == 3
\* the vertices of a polygon handed to polygon_area
MaxVertices == 4
\* the segments asked of segment()
MaxSegments == 4

----------------------------------------------------------------------------
(* Python values                                                           *)

NoneV == [t |-> "None"]
\* an attribute that was never assigned (hasattr is False)
Unset == [t |-> "unset"]
PyStr(s) == [t |-> "str", s |-> s]
PyInt(i) == [t |-> "int", i |-> i]
PyFloat(x) == [t |-> "float", x |-> x]
PyBool(b) == [t |-> "bool", b |-> b]
NpInt(i) == [t |-> "np.int64", i |-> i]
NpFloat(x) == [t |-> "np.float64", x |-> x]
NpBool(b) == [t |-> "np.bool_", b |-> b]
Enum(cls, value) == [t |-> "enum", cls |-> cls, value |-> value]
Tuple(items) == [t |-> "tuple", items |-> items]
PyList(items) == [t |-> "list", items |-> items]
ndarray(dtype, shape, data) ==
    [t |-> "ndarray", dtype |-> dtype, shape |-> shape, data |-> data]
Raise(e) == [t |-> "raise", exc |-> e]
IsRaise(v) == v.t = "raise"
EmptyFn == [x \in {} |-> NoneV]

RECURSIVE Product(_)
Product(s) == IF s = <<>> THEN 1 ELSE Head(s) * Product(Tail(s))

\* the coordinate along `axis` of the k-th (1-based, row-major) element
Coord(shape, k, axis) ==
    ((k - 1) \div Product(SubSeq(shape, axis + 1, Len(shape)))) % shape[axis]

\* the flat index (1-based) of the element of an array of shape `shape` that
\* broadcasts to the k-th element of an array of shape `out` (same ndim)
RECURSIVE BroadcastIndex(_, _, _, _)
BroadcastIndex(shape, out, k, axis) ==
    IF axis > Len(shape) THEN 1
    ELSE (IF shape[axis] = 1 THEN 0 ELSE Coord(out, k, axis))
            * Product(SubSeq(shape, axis + 1, Len(shape)))
         + BroadcastIndex(shape, out, k, axis + 1)

Max(a, b) == IF a >= b THEN a ELSE b

astype_bool(a) ==
    ndarray("bool", a.shape, [k \in DOMAIN a.data |-> IF a.data[k] # 0 THEN 1 ELSE 0])

\* np.logical_or with numpy's broadcasting of arrays of the same ndim
np_logical_or(a, b) ==
    IF Len(a.shape) # Len(b.shape)
       \/ \E ax \in DOMAIN a.shape :
            a.shape[ax] # b.shape[ax] /\ a.shape[ax] # 1 /\ b.shape[ax] # 1
    THEN Raise("ValueError")
    ELSE LET out == [ax \in DOMAIN a.shape |-> Max(a.shape[ax], b.shape[ax])]
         IN  ndarray("bool", out,
                [k \in 1..Product(out) |->
                    IF a.data[BroadcastIndex(a.shape, out, k, 1)] # 0
                       \/ b.data[BroadcastIndex(b.shape, out, k, 1)] # 0
                    THEN 1 ELSE 0])

----------------------------------------------------------------------------
(* class ROI                                                               *)

\* the object ROI.__init__ fills in
NewObject(cls, mask, polygon, image_shape, name, slice_idx, subROIs, info_string) ==
    [t |-> "object", cls |-> cls,
     _mask |-> mask, _polygon |-> polygon, _shape |-> image_shape,
     _name |-> IF name # NoneV THEN name ELSE Unset,
     slice_idx |-> slice_idx,
     subROIs |-> subROIs.items,
     info_string |-> IF info_string # NoneV THEN info_string ELSE Unset,
     attrs |-> EmptyFn]

ROI_init_unchecked(cls, mask, polygon, image_shape, name, slice_idx, subROIs, info_string) ==
    NewObject(cls, mask, polygon, image_shape, name, slice_idx, subROIs, info_string)

ROI_init_wants_mask(cls, mask, polygon, image_shape, name, slice_idx, subROIs, info_string) ==
    IF mask = NoneV THEN Raise("NoROIError")
    ELSE NewObject(cls, mask, polygon, image_shape, name, slice_idx, subROIs, info_string)

ROI_init(cls, mask, polygon, image_shape, name, slice_idx, subROIs, info_string) ==
    IF mask = NoneV /\ polygon = NoneV /\ image_shape = NoneV
    THEN Raise("NoROIError")
    ELSE NewObject(cls, mask, polygon, image_shape, name, slice_idx, subROIs, info_string)

\* the classes that override the mask property and return _mask as it is
RawMaskClasses == {"Ellipse", "Fan"}

mask(self) ==
    IF self._mask # NoneV
    THEN IF self.cls \in RawMaskClasses THEN self._mask ELSE astype_bool(self._mask)
    ELSE Raise("NotImplementedError")

fuse_forgets_other(self, other) == mask(self)

\* the mask fuse stores in self._mask and returns, or what it raises
fuse(self, other) ==
    LET curr_mask == mask(self)
        other_mask == mask(other)
    IN  IF IsRaise(curr_mask) THEN curr_mask
        ELSE IF IsRaise(other_mask) THEN other_mask
        ELSE np_logical_or(curr_mask, other_mask)

\* the loop of from_rois: rois[0].fuse(roi) for each later roi, on the heap
RECURSIVE FuseLoop(_, _, _)
FuseLoop(heap, first, rest) ==
    IF rest = <<>> THEN [heap |-> heap, exc |-> "none"]
    ELSE LET m == fuse(heap[first], heap[Head(rest)])
         IN  IF IsRaise(m) THEN [heap |-> heap, exc |-> m.exc]
             ELSE FuseLoop([heap EXCEPT ![first]._mask = m], first, Tail(rest))

\* ROI.from_rois(rois, name = name): the heap after the call and what is
\* returned, a reference to an object of the heap (ref) or a new object (new),
\* or the exception raised
from_rois(heap, list, name) ==
    IF Len(list) = 0 THEN [heap |-> heap, exc |-> "NoROIError", ref |-> 0, new |-> NoneV]
    ELSE IF Len(list) = 1 THEN [heap |-> heap, exc |-> "none", ref |-> list[1], new |-> NoneV]
    ELSE LET l == FuseLoop(heap, list[1], Tail(list))
         IN  IF l.exc # "none"
             THEN [heap |-> l.heap, exc |-> l.exc, ref |-> 0, new |-> NoneV]
             ELSE [heap |-> l.heap, exc |-> "none", ref |-> 0,
                   new |-> ROI_init("ROI", mask(l.heap[list[1]]), NoneV, NoneV,
                                    name, NoneV, PyList(<<>>), NoneV)]

\* ROI.__iadd__(self, other): what it returns (None), or what it raises;
\* other is an object or some other value
ROI_iadd(self, other) ==
    IF other.t # "object" THEN Raise("TypeError")
    ELSE IF IsRaise(fuse(self, other)) THEN fuse(self, other)
    ELSE NoneV

\* the statement  a += other  with a the object heap[i]: the heap after it,
\* and what the name a is bound to, the object of a reference (ref) or the
\* value __iadd__ returned (value)
iadd(heap, i, other) ==
    IF IsRaise(ROI_iadd(heap[i], other))
    THEN [heap |-> heap, exc |-> ROI_iadd(heap[i], other).exc, ref |-> i, value |-> NoneV]
    ELSE [heap |-> [heap EXCEPT ![i]._mask = fuse(heap[i], other)], exc |-> "none",
          ref |-> 0, value |-> ROI_iadd(heap[i], other)]

----------------------------------------------------------------------------
(* name, shape, center and hashname of an ROI                              *)

Digits == <<"0", "1", "2", "3", "4", "5", "6", "7", "8", "9">>

RECURSIVE NatToStr(_)
NatToStr(i) == IF i < 10 THEN Digits[i + 1] ELSE NatToStr(i \div 10) \o Digits[(i % 10) + 1]

\* Python's str() of a name
str(v) == IF v.t = "str" THEN v.s ELSE NatToStr(v.i)

\* the name property
name(self) == IF self._name # Unset THEN str(self._name) ELSE ""

\* the shape property: a tuple of ints, or the image_shape that was given
shape(self) ==
    IF self._mask # NoneV
    THEN Tuple([ax \in DOMAIN self._mask.shape |-> PyInt(self._mask.shape[ax])])
    ELSE self._shape

RECURSIVE GCD(_, _)
GCD(a, b) == IF b = 0 THEN a ELSE GCD(b, a % b)

RECURSIVE SumOver(_, _)
SumOver(f, n) == IF n = 0 THEN 0 ELSE f[n] + SumOver(f, n - 1)

\* scipy.ndimage.center_of_mass: per axis the weighted mean of the
\* coordinates, as a reduced fraction <<numerator, denominator>>, and nan
\* (written <<0, 0>>) for an array that sums to zero
center_of_mass(a) ==
    LET n == Len(a.data)
        total == SumOver(a.data, n)
    IN  IF total = 0 THEN [ax \in DOMAIN a.shape |-> <<0, 0>>]
        ELSE [ax \in DOMAIN a.shape |->
                LET num == SumOver([k \in 1..n |-> a.data[k] * Coord(a.shape, k, ax)], n)
                    g == GCD(num, total)
                IN  <<num \div g, total \div g>>]

\* center(): the center of mass of the mask (plane = None)
center(self) ==
    LET m == mask(self)
    IN  IF IsRaise(m) THEN m ELSE Tuple(center_of_mass(m))

\* __hash__: no ROI has an attribute `image`, so the hash is that of the pair
\* (center, the class's name property); the property object is the same for
\* every class, and the hash is modelled as its argument
hash(self) == center(self)

\* the hashname property: str(_name) + str(hash), as the pair of its parts
hashname(self) ==
    LET h == hash(self)
    IN  IF IsRaise(h) THEN h
        ELSE [t |-> "hashname", name |-> name(self), hash |-> h.items]

----------------------------------------------------------------------------
(* The ROI classes                                                         *)

ViewDirectionValues == {"anterior", "posterior", "undefined"}
ANTERIOR == Enum("ViewDirection", "anterior")
POSTERIOR == Enum("ViewDirection", "posterior")

\* ViewDirection(v): the member itself, or the member of that value
ViewDirection(v) ==
    IF v.t = "enum" /\ v.cls = "ViewDirection" THEN v
    ELSE IF v.t = "str" /\ v.s \in ViewDirectionValues THEN Enum("ViewDirection", v.s)
    ELSE Raise("ValueError")

\* the module a class is defined in
ModuleOf(cls) ==
    CASE cls \in {"ROI", "subROI"} -> "siffroi.roi"
      [] cls \in {"Ellipse", "WedgeROI"} -> "siffroi.ellipsoid_body.rois.ellipse"
      [] cls \in {"Fan", "Column"} -> "siffroi.fan_shaped_body.rois.fan"
      [] cls \in {"GlobularMustache", "GlomerulusROI"} ->
            "siffroi.protocerebral_bridge.rois.mustache"

Classes ==
    {"ROI", "subROI", "Ellipse", "WedgeROI", "Fan", "Column",
     "GlobularMustache", "GlomerulusROI"}

SubROIClasses == {"subROI", "WedgeROI", "Column", "GlomerulusROI"}

SAVE_ATTRS(cls) ==
    CASE cls \in {"ROI", "subROI"} -> <<>>
      [] cls = "Ellipse" -> <<"orientation", "center_poly", "view_direction">>
      [] cls = "Fan" -> <<"view_direction", "orientation", "mirrored">>
      [] cls = "GlobularMustache" -> <<"view_direction", "mirrored">>
      [] cls \in {"WedgeROI", "Column"} -> <<"phase">>
      [] cls = "GlomerulusROI" -> <<"pseudophase">>

\* setattr(self, a, v) on a class attribute
SetAttr(self, a, v) ==
    [self EXCEPT !.attrs = [b \in DOMAIN self.attrs \cup {a} |->
                                IF b = a THEN v ELSE self.attrs[b]]]

\* keyword arguments that may be absent are Unset
Kw(kwargs, key, default) == IF kwargs[key] = Unset THEN default ELSE kwargs[key]

\* Ellipse.__init__; kwargs holds name, subROIs and info_string
Ellipse_init(m, polygon, image_shape, slice_idx, orientation, center_poly, view_direction, kwargs) ==
    LET o == ROI_init("Ellipse", m, polygon, image_shape,
                      Kw(kwargs, "name", PyStr("Ellipse")), slice_idx,
                      Kw(kwargs, "subROIs", PyList(<<>>)), Kw(kwargs, "info_string", NoneV))
        vd == ViewDirection(view_direction)
    IN  IF IsRaise(o) THEN o
        ELSE IF IsRaise(vd) THEN vd
        ELSE SetAttr(SetAttr(SetAttr(o, "orientation", orientation),
                             "center_poly", center_poly), "view_direction", vd)

\* Fan.__init__
Fan_init(m, polygon, image_shape, slice_idx, orientation, view_direction, mirrored, kwargs) ==
    LET o == ROI_init("Fan", m, polygon, image_shape,
                      Kw(kwargs, "name", PyStr("Fan")), slice_idx,
                      Kw(kwargs, "subROIs", PyList(<<>>)), Kw(kwargs, "info_string", NoneV))
    IN  IF IsRaise(o) THEN o
        ELSE SetAttr(SetAttr(SetAttr(o, "mirrored", mirrored),
                             "orientation", orientation), "view_direction", view_direction)

\* WedgeROI.__init__
WedgeROI_init(m, polygon, image_shape, phase, slice_idx, view_direction, kwargs) ==
    LET o == ROI_init("WedgeROI", m, polygon, image_shape,
                      Kw(kwargs, "name", NoneV), slice_idx,
                      Kw(kwargs, "subROIs", PyList(<<>>)), Kw(kwargs, "info_string", NoneV))
        vd == ViewDirection(view_direction)
    IN  IF IsRaise(o) THEN o
        ELSE IF IsRaise(vd) THEN vd
        ELSE SetAttr(SetAttr(o, "phase", phase), "view_direction", vd)

\* Column.__init__: `self.phase = phase,` stores a one-element tuple
Column_init(m, polygon, image_shape, phase, slice_idx, view_direction, kwargs) ==
    LET o == ROI_init("Column", m, polygon, image_shape,
                      Kw(kwargs, "name", NoneV), slice_idx,
                      Kw(kwargs, "subROIs", PyList(<<>>)), Kw(kwargs, "info_string", NoneV))
    IN  IF IsRaise(o) THEN o
        ELSE SetAttr(SetAttr(o, "phase", Tuple(<<phase>>)),
                     "view_direction", view_direction)

\* GlomerulusROI.__init__: further keyword arguments are dropped
GlomerulusROI_init(m, polygon, image_shape, nm, slice_idx, pseudophase) ==
    LET o == ROI_init("GlomerulusROI", m, polygon, image_shape, nm, slice_idx,
                      PyList(<<>>), NoneV)
    IN  IF IsRaise(o) THEN o ELSE SetAttr(o, "pseudophase", pseudophase)

Reverse(s) == [i \in 1..Len(s) |-> s[Len(s) + 1 - i]]

Min(a, b) == IF a <= b THEN a ELSE b

\* np.array(masks).any(axis = 0) of masks of one shape
any_axis0(masks) ==
    ndarray("bool", masks[1].shape,
            [k \in DOMAIN masks[1].data |->
                IF \E i \in DOMAIN masks : masks[i].data[k] # 0 THEN 1 ELSE 0])

\* the phases handed to the glomeruli: None for each when none are given,
\* reversed when mirrored
Phases(phases, ggm, mirrored) ==
    IF mirrored.b
    THEN Reverse(IF phases = NoneV THEN [i \in DOMAIN ggm |-> NoneV] ELSE phases.items)
    ELSE IF phases = NoneV THEN [i \in DOMAIN ggm |-> NoneV] ELSE phases.items

\* the subROIs of a GlobularMustache: the subROIs it was given, or a
\* GlomerulusROI for each pair of zip(masks, phases)
Glomeruli(ggm, ph, image_shape, nm, slice_idx) ==
    IF \A i \in DOMAIN ggm : ggm[i].t = "object" THEN ggm
    ELSE [i \in 1..Min(Len(ggm), Len(ph)) |->
            GlomerulusROI_init(ggm[i], NoneV, image_shape, nm, slice_idx, ph[i])]

\* the rest of GlobularMustache.__init__, once the subROIs gl are made and
\* ROI.__init__ has run (o)
MustacheOf(o, gl, view_direction, mirrored) ==
    IF \E i \in DOMAIN gl : IsRaise(gl[i]) THEN Raise("NoROIError")
    ELSE IF IsRaise(o) THEN o
    ELSE SetAttr(SetAttr([o EXCEPT !.subROIs = gl], "mirrored", mirrored),
                 "view_direction", view_direction)

\* GlobularMustache.__init__ with the list ggm of glomeruli
MustacheFrom(m, polygon, image_shape, nm, slice_idx, ggm, phases, view_direction, mirrored) ==
    MustacheOf(ROI_init("GlobularMustache", IF m = NoneV THEN any_axis0(ggm) ELSE m,
                        polygon, image_shape, nm, slice_idx, PyList(<<>>), NoneV),
               Glomeruli(ggm, Phases(phases, ggm, mirrored), image_shape, nm, slice_idx),
               view_direction, mirrored)

\* GlobularMustache.__init__; glomeruli is globular_glomeruli_masks (None, a
\* list of masks, or a list of subROI objects), kwargs holds subROIs and
\* info_string; iterating over None raises TypeError
GlobularMustache_init(m, polygon, image_shape, nm, slice_idx, glomeruli, phases, view_direction, mirrored, kwargs) ==
    IF glomeruli = NoneV /\ kwargs["subROIs"] = Unset THEN Raise("TypeError")
    ELSE MustacheFrom(m, polygon, image_shape, nm, slice_idx,
                      (IF glomeruli = NoneV THEN kwargs["subROIs"] ELSE glomeruli).items,
                      phases, view_direction, mirrored)

NoKwargs == [name |-> Unset, subROIs |-> Unset, info_string |-> Unset]

\* cls(mask = .., polygon = .., image_shape = .., name = .., slice_idx = ..,
\* subROIs = .., info_string = ..), as load calls it; a keyword left out is Unset
ClassInit(cls, m, polygon, image_shape, nm, slice_idx, subROIs, info_string) ==
    LET kw == [name |-> nm, subROIs |-> subROIs, info_string |-> info_string]
    IN  CASE cls \in {"ROI", "subROI"} ->
                ROI_init(cls, m, polygon, image_shape, nm, slice_idx,
                         Kw(kw, "subROIs", PyList(<<>>)), Kw(kw, "info_string", NoneV))
          [] cls = "Ellipse" ->
                Ellipse_init(m, polygon, image_shape, slice_idx, PyFloat(0), NoneV,
                             ANTERIOR, kw)
          [] cls = "Fan" ->
                Fan_init(m, polygon, image_shape, slice_idx, PyFloat(0), ANTERIOR,
                         PyBool(TRUE), kw)
          [] cls = "WedgeROI" ->
                WedgeROI_init(m, polygon, image_shape, NoneV, slice_idx, ANTERIOR, kw)
          [] cls = "Column" ->
                Column_init(m, polygon, image_shape, NoneV, slice_idx, ANTERIOR, kw)
          [] cls = "GlomerulusROI" ->
                GlomerulusROI_init(m, polygon, image_shape, nm, slice_idx, NoneV)
          [] cls = "GlobularMustache" ->
                GlobularMustache_init(m, polygon, image_shape, nm, slice_idx, NoneV,
                                      NoneV, POSTERIOR, PyBool(TRUE), kw)

----------------------------------------------------------------------------
(* The .h5roi file: attributes, datasets and the group of subROIs.         *)
(* What is stored is tagged "h5"; h5py converts on writing and on reading. *)

\* h5py.Empty, the Python value
PyEmpty == [t |-> "Empty"]

H5Empty == [t |-> "h5", h |-> "Empty"]
H5Array(dtype, shp, data) ==
    [t |-> "h5", h |-> "array", dtype |-> dtype, shape |-> shp, data |-> data]

EmptyFile == [attrs |-> EmptyFn, ds |-> EmptyFn,
              sub |-> [exists |-> FALSE, items |-> <<>>]]

IsNumber(v) == v.t \in {"int", "np.int64", "float", "np.float64"}
NumberOf(v) == IF v.t \in {"int", "np.int64"} THEN v.i ELSE v.x

\* astype(dtype) of the flattened data
Cast(data, dtype) ==
    [k \in DOMAIN data |-> IF dtype = "bool" THEN (IF data[k] # 0 THEN 1 ELSE 0) ELSE data[k]]

\* f.attrs[key] = v: what h5py stores, or the TypeError it raises for a value
\* numpy turns into an object array (None, an Enum member, a tuple holding None)
AttrWrite(v) ==
    CASE v.t = "Empty" -> H5Empty
      [] v.t = "str" -> [t |-> "h5", h |-> "str", s |-> v.s]
      [] v.t \in {"int", "np.int64"} -> [t |-> "h5", h |-> "int64", i |-> v.i]
      [] v.t \in {"float", "np.float64"} -> [t |-> "h5", h |-> "float64", x |-> v.x]
      [] v.t \in {"bool", "np.bool_"} -> [t |-> "h5", h |-> "bool", b |-> v.b]
      [] v.t = "ndarray" -> H5Array(v.dtype, v.shape, v.data)
      [] v.t = "tuple" ->
            IF \A k \in DOMAIN v.items : IsNumber(v.items[k])
            THEN H5Array(IF \E k \in DOMAIN v.items : v.items[k].t \in {"float", "np.float64"}
                         THEN "float64" ELSE "int64",
                         <<Len(v.items)>>,
                         [k \in DOMAIN v.items |-> NumberOf(v.items[k])])
            ELSE Raise("TypeError")
      [] OTHER -> Raise("TypeError")

\* f.attrs[key]: the Python value h5py hands back
AttrRead(h) ==
    CASE h.h = "Empty" -> PyEmpty
      [] h.h = "str" -> PyStr(h.s)
      [] h.h = "int64" -> NpInt(h.i)
      [] h.h = "float64" -> NpFloat(h.x)
      [] h.h = "bool" -> NpBool(h.b)
      [] h.h = "array" -> ndarray(h.dtype, h.shape, h.data)

\* f.create_dataset(key, data = data, dtype = dtype): an empty dataset for
\* data None, the array cast to dtype otherwise (a tuple of ints is an array)
DsWrite(data, dtype) ==
    CASE data = NoneV -> H5Empty
      [] data.t = "tuple" ->
            H5Array(dtype, <<Len(data.items)>>,
                    Cast([k \in DOMAIN data.items |-> NumberOf(data.items[k])], dtype))
      [] data.t = "ndarray" -> H5Array(dtype, data.shape, Cast(data.data, dtype))

\* f[key][()]
DsRead(h) == IF h.h = "Empty" THEN PyEmpty ELSE ndarray(h.dtype, h.shape, h.data)

WithKey(f, key, v) == [k \in DOMAIN f \cup {key} |-> IF k = key THEN v ELSE f[k]]

\* A write is  f.attrs[key] = v  or  f.create_dataset(key, data = v, dtype = dtype)
SetFAttr(key, v) == [op |-> "attr", key |-> key, v |-> v, dtype |-> ""]
SetDs(key, data, dtype) == [op |-> "ds", key |-> key, v |-> data, dtype |-> dtype]

\* A writer w is the file (or group) written so far and the exception that
\* ended the writing, if any; nothing is written after an exception.
Apply(w, o) ==
    IF w.exc # "none" THEN w
    ELSE IF o.op = "ds" THEN [w EXCEPT !.f.ds = WithKey(@, o.key, DsWrite(o.v, o.dtype))]
    ELSE IF IsRaise(AttrWrite(o.v)) THEN [w EXCEPT !.exc = AttrWrite(o.v).exc]
    ELSE [w EXCEPT !.f.attrs = WithKey(@, o.key, AttrWrite(o.v))]

RECURSIVE Write(_, _)
Write(w, ops) == IF ops = <<>> THEN w ELSE Write(Apply(w, Head(ops)), Tail(ops))

\* safe_save_attr of save: Empty for None
safe_save_attr(key, v) == SetFAttr(key, IF v = NoneV THEN PyEmpty ELSE v)

\* safe_save_ds of save
safe_save_ds(key, data, dtype) == SetDs(key, data, dtype)

\* save's loop over SAVE_ATTRS for one attribute: an array goes to a dataset;
\* otherwise attr_out is the Enum's value or the attribute itself (the Empty
\* assigned for None is overwritten by the else branch of the Enum test)
SaveAttr(self, a) ==
    IF self.attrs[a].t = "ndarray"
    THEN safe_save_ds(a, self.attrs[a], self.attrs[a].dtype)
    ELSE SetFAttr(a, IF self.attrs[a].t = "enum" THEN PyStr(self.attrs[a].value)
                     ELSE self.attrs[a])

\* save_to_group's loop over SAVE_ATTRS for one attribute
GroupAttr(self, a) ==
    IF self.attrs[a].t = "ndarray"
    THEN SetDs(a, self.attrs[a], self.attrs[a].dtype)
    ELSE SetFAttr(a, self.attrs[a])

\* subROI.save_to_group: the writer of the parent's file after the call;
\* create_group raises ValueError for a name the group already holds
save_to_group(w, self) ==
    IF w.exc # "none" THEN w
    ELSE IF IsRaise(hashname(self)) THEN [w EXCEPT !.exc = hashname(self).exc]
    ELSE IF \E i \in DOMAIN w.f.sub.items : w.f.sub.items[i].gname = hashname(self)
    THEN [w EXCEPT !.exc = "ValueError"]
    ELSE
    LET g == Write([f |-> [gname |-> hashname(self), attrs |-> EmptyFn, ds |-> EmptyFn],
                    exc |-> "none"],
                   << SetFAttr("name", PyStr(name(self))),
                      SetFAttr("slice_idx", IF self.slice_idx # NoneV THEN self.slice_idx
                                            ELSE PyEmpty),
                      SetFAttr("class", PyStr(self.cls)),
                      SetFAttr("module", PyStr(ModuleOf(self.cls))) >>
                   \o [k \in DOMAIN SAVE_ATTRS(self.cls) |->
                          GroupAttr(self, SAVE_ATTRS(self.cls)[k])]
                   \o << SetDs("mask", mask(self), "bool"),
                         SetDs("shape", shape(self), "int32"),
                         SetDs("polygon", self._polygon, "float32") >>)
    IN  [f |-> [w.f EXCEPT !.sub.items = Append(@, g.f)], exc |-> g.exc]

RECURSIVE SaveSubROIs(_, _)
SaveSubROIs(w, subs) ==
    IF subs = <<>> THEN w ELSE SaveSubROIs(save_to_group(w, Head(subs)), Tail(subs))

\* the file name save writes to: <class name>_<hashname>.h5roi
PathOf(self) == [cls |-> self.cls, hashname |-> hashname(self)]

\* the with-block of save up to the subROIs
SaveBody(self) ==
    Write([f |-> EmptyFile, exc |-> "none"],
          << safe_save_attr("name", PyStr(name(self))),
             safe_save_attr("slice_idx", self.slice_idx),
             SetFAttr("class", PyStr(self.cls)),
             SetFAttr("module", PyStr(ModuleOf(self.cls))) >>
          \o (IF self.info_string # Unset
              THEN << safe_save_attr("info_string", self.info_string) >> ELSE << >>)
          \o [k \in DOMAIN SAVE_ATTRS(self.cls) |-> SaveAttr(self, SAVE_ATTRS(self.cls)[k])]
          \o << safe_save_ds("mask", mask(self), "bool"),
                safe_save_ds("shape", shape(self), "int64"),
                safe_save_ds("polygon", self._polygon, "float32") >>)

\* the with-block of save: the group 'subROIs' is created and filled when
\* the ROI has subROIs
SaveFile(self) ==
    IF Len(self.subROIs) > 0 /\ SaveBody(self).exc = "none"
    THEN SaveSubROIs([SaveBody(self) EXCEPT !.f.sub.exists = TRUE], self.subROIs)
    ELSE SaveBody(self)

\* ROI.save: the exception raised if any, and the file left on disk (whole,
\* or what was written before the exception; none when the name of the file
\* could not be computed)
save(self) ==
    IF IsRaise(hashname(self))
    THEN [exc |-> hashname(self).exc, wrote |-> FALSE, file |-> EmptyFile]
    ELSE [exc |-> SaveFile(self).exc, wrote |-> TRUE, file |-> SaveFile(self).f]

safe_load_attr_forgets(f, key) == NoneV

\* safe_load_attr: None for a missing or an Empty attribute
safe_load_attr(f, key) ==
    IF key \notin DOMAIN f.attrs THEN NoneV
    ELSE LET att == AttrRead(f.attrs[key])
         IN  IF att = PyEmpty THEN NoneV ELSE att

\* safe_load_ds: None for an Empty dataset, KeyError for a missing one
safe_load_ds(f, key) ==
    IF key \notin DOMAIN f.ds THEN Raise("KeyError")
    ELSE LET att == DsRead(f.ds[key])
         IN  IF att = PyEmpty THEN NoneV ELSE att

KnownModules == { ModuleOf(c) : c \in Classes }

\* the classes a module holds: those it defines, and ROI and subROI, which
\* the modules of the subclasses import
NamesOf(mod) == { c \in Classes : ModuleOf(c) = mod } \cup {"ROI", "subROI"}

\* importlib.import_module(module) and getattr(mod, class): the class, the
\* fallback (with a warning) when the module is not found, AttributeError
\* when the module has no such class
Resolve(f, fallback) ==
    IF "module" \notin DOMAIN f.attrs \/ "class" \notin DOMAIN f.attrs
    THEN Raise("KeyError")
    ELSE LET mod == AttrRead(f.attrs["module"])
             cls == AttrRead(f.attrs["class"])
         IN  IF mod.s \notin KnownModules THEN [t |-> "class", cls |-> fallback]
             ELSE IF cls.s \notin NamesOf(mod.s)
             THEN Raise("AttributeError")
             ELSE [t |-> "class", cls |-> cls.s]

\* one turn of the loop over cls.SAVE_ATTRS of load and of load_from_group:
\* the attribute is set from f.attrs (None for Empty), then from the dataset
FromAttrs(roi, f, a) ==
    IF a \in DOMAIN f.attrs
    THEN SetAttr(roi, a, IF AttrRead(f.attrs[a]) = PyEmpty THEN NoneV
                         ELSE AttrRead(f.attrs[a]))
    ELSE roi

FromDatasets(roi, f, a) ==
    IF a \in DOMAIN f.ds THEN SetAttr(roi, a, DsRead(f.ds[a])) ELSE roi

RECURSIVE LoadAttrs(_, _, _)
LoadAttrs(roi, f, as) ==
    IF as = <<>> THEN roi
    ELSE LoadAttrs(FromDatasets(FromAttrs(roi, f, Head(as)), f, Head(as)), f, Tail(as))

\* the loop over cls.SAVE_ATTRS on what the constructor returned or raised
WithSaveAttrs(roi, f, cls) ==
    IF IsRaise(roi) THEN roi ELSE LoadAttrs(roi, f, SAVE_ATTRS(cls))

\* subROI.load_from_group, called on the class cls
load_from_group(cls, g) ==
    IF IsRaise(safe_load_ds(g, "mask")) THEN safe_load_ds(g, "mask")
    ELSE IF IsRaise(safe_load_ds(g, "polygon")) THEN safe_load_ds(g, "polygon")
    ELSE IF IsRaise(safe_load_ds(g, "shape")) THEN safe_load_ds(g, "shape")
    ELSE IF cls \notin SubROIClasses THEN Raise("AttributeError")
    ELSE WithSaveAttrs(ClassInit(cls, safe_load_ds(g, "mask"), safe_load_ds(g, "polygon"),
                                 safe_load_ds(g, "shape"), safe_load_attr(g, "name"),
                                 safe_load_attr(g, "slice_idx"), Unset, Unset),
                       g, cls)

\* sr_cls.load_from_group(subroi_group), for what the import of the class gave
LoadGroup(sr_cls, g) == IF IsRaise(sr_cls) THEN sr_cls ELSE load_from_group(sr_cls.cls, g)

\* the loop of load over the groups of f['subROIs']: the list of subROIs, or
\* the first exception
RECURSIVE LoadSubROIs(_, _)
LoadSubROIs(groups, acc) ==
    IF groups = <<>> THEN PyList(acc)
    ELSE IF IsRaise(LoadGroup(Resolve(Head(groups), "subROI"), Head(groups)))
    THEN LoadGroup(Resolve(Head(groups), "subROI"), Head(groups))
    ELSE LoadSubROIs(Tail(groups),
                     Append(acc, LoadGroup(Resolve(Head(groups), "subROI"), Head(groups))))

\* what a filter_condition answers: no filter lets every ROI pass
NoFilter == [t |-> "filter", kind |-> "none", s |-> ""]
NameIs(s) == [t |-> "filter", kind |-> "name_is", s |-> s]
filter_condition_passes_all(flt, roi) == TRUE

filter_condition(flt, roi) == flt.kind = "none" \/ name(roi) = flt.s

\* the end of load: NoROIError for an ROI the filter turns down
Filtered(roi, flt) ==
    IF IsRaise(roi) THEN roi
    ELSE IF ~filter_condition(flt, roi) THEN Raise("NoROIError")
    ELSE roi

\* load from the construction of the ROI on, given the subROIs loaded
LoadROI(f, cls, subrois, flt) ==
    IF IsRaise(subrois) THEN subrois
    ELSE Filtered(WithSaveAttrs(
                      ClassInit(cls, safe_load_ds(f, "mask"), safe_load_ds(f, "polygon"),
                                safe_load_ds(f, "shape"), safe_load_attr(f, "name"),
                                safe_load_attr(f, "slice_idx"), subrois,
                                IF "info_string" \in DOMAIN f.attrs
                                THEN AttrRead(f.attrs["info_string"]) ELSE NoneV),
                      f, cls),
                  flt)

\* ROI.load of the file f: the ROI returned, or the exception raised
load(f, flt) ==
    IF IsRaise(Resolve(f, "ROI")) THEN Resolve(f, "ROI")
    ELSE IF IsRaise(safe_load_ds(f, "mask")) THEN safe_load_ds(f, "mask")
    ELSE IF IsRaise(safe_load_ds(f, "polygon")) THEN safe_load_ds(f, "polygon")
    ELSE IF IsRaise(safe_load_ds(f, "shape")) THEN safe_load_ds(f, "shape")
    ELSE LoadROI(f, Resolve(f, "ROI").cls,
                 IF f.sub.exists /\ Len(f.sub.items) > 0
                 THEN LoadSubROIs(f.sub.items, <<>>) ELSE PyList(<<>>),
                 flt)

----------------------------------------------------------------------------
(* The shape-selection utilities of siffroi/utils/__init__.py.             *)
(* A polygon is an array of vertices (z, y, x), its coordinates counted in *)
(* halves of a pixel; a mask is a boolean array of planes.                 *)

Abs(x) == IF x < 0 THEN -x ELSE x

\* np.round of a coordinate in halves: the nearest integer, the even one of
\* the two when it lies halfway
np_round(h) ==
    IF h % 2 = 0 THEN h \div 2
    ELSE IF ((h - 1) \div 2) % 2 = 0 THEN (h - 1) \div 2
    ELSE (h + 1) \div 2

\* vertices[..., c] of an array of shape (n, 3); c counts from 1
Coords(vertices, c) ==
    [i \in 1..vertices.shape[1] |-> vertices.data[(i - 1) * vertices.shape[2] + c]]

\* np.roll(v, 1)
roll(v) == [i \in DOMAIN v |-> IF i = 1 THEN v[Len(v)] ELSE v[i - 1]]

dot(a, b) == SumOver([i \in DOMAIN a |-> a[i] * b[i]], Len(a))

polygon_area_signed(vertices) ==
    dot(Coords(vertices, vertices.shape[2]), roll(Coords(vertices, vertices.shape[2] - 1)))
        - dot(Coords(vertices, vertices.shape[2] - 1), roll(Coords(vertices, vertices.shape[2])))

\* polygon_area, in eighths of a square pixel (coordinates are in halves)
polygon_area(vertices) ==
    Abs(dot(Coords(vertices, vertices.shape[2]), roll(Coords(vertices, vertices.shape[2] - 1)))
        - dot(Coords(vertices, vertices.shape[2] - 1), roll(Coords(vertices, vertices.shape[2]))))

\* np.sum of a mask
np_sum(a) == SumOver(a.data, Len(a.data))

\* a[p], the plane p (from 0) of a mask, flattened
Plane(a, p) ==
    [k \in 1..Product(Tail(a.shape)) |-> a.data[p * Product(Tail(a.shape)) + k]]

\* np.any(a[p])
np_any(a, p) == \E k \in DOMAIN Plane(a, p) : Plane(a, p)[k] # 0

\* np.zeros(image_shape, dtype = bool)
np_zeros(image_shape) ==
    ndarray("bool", image_shape, [k \in 1..Product(image_shape) |-> 0])

\* np.logical_or.reduce of a list of masks of one shape
logical_or_reduce(masks) ==
    ndarray("bool", masks[1].shape,
            [k \in DOMAIN masks[1].data |->
                IF \E i \in DOMAIN masks : masks[i].data[k] # 0 THEN 1 ELSE 0])

\* np.argsort(sizes): the positions (from 1) in ascending order of size;
\* the order of equal sizes is not specified, and tb, a ranking of the
\* positions, is the one this run of the sort produces
argsort(sizes, tb) ==
    [r \in 1..Len(sizes) |->
        CHOOSE j \in 1..Len(sizes) :
            Cardinality({ i \in 1..Len(sizes) :
                            \/ sizes[i] < sizes[j]
                            \/ sizes[i] = sizes[j] /\ tb[i] < tb[j] }) = r - 1]

\* the positions in the list of the shapes with pixels in plane p
InPlane(list, p) ==
    SelectSeq([i \in 1..Len(list) |-> i], LAMBDA i : np_any(list[i], p))

\* the positions in the list of the shapes whose first vertex rounds to slice_idx
OnSlice(list, slice_idx) ==
    SelectSeq([i \in 1..Len(list) |-> i], LAMBDA i : np_round(list[i].data[1]) = slice_idx)

\* slicewise_biggest_shape for one plane: among the masks `at` (positions)
\* of the plane, the one at sorted_slicewise[-n], sorted by np.sum of the
\* whole mask; zeros when the plane has no mask; IndexError when it has
\* fewer than n
slicewise_biggest(list, at, n, image_shape, tb) ==
    IF Len(at) = 0 THEN np_zeros(image_shape)
    ELSE IF n > Len(at) THEN Raise("IndexError")
    ELSE list[at[argsort([j \in DOMAIN at |-> np_sum(list[at[j]])],
                         [j \in DOMAIN at |-> tb[at[j]]])[Len(at) + 1 - n]]]

\* the branch slice_idx is None of nth_largest_shape_in_list, for masks
AllPlanes(list, n, image_shape, tb) ==
    IF \E p \in 0..(image_shape[1] - 1) :
            IsRaise(slicewise_biggest(list, InPlane(list, p), n, image_shape, tb))
    THEN Raise("IndexError")
    ELSE logical_or_reduce([q \in 1..image_shape[1] |->
            slicewise_biggest(list, InPlane(list, q - 1), n, image_shape, tb)])

\* the branch of a given slice_idx, for polygons: the sizes of the shapes
\* `at` of the slice are sorted, and the position found in the sorted sizes
\* indexes the whole list
FixedSlice(list, at, n, tb) ==
    IF n > Len(at) THEN Raise("IndexError")
    ELSE list[argsort([j \in DOMAIN at |-> polygon_area(list[at[j]])],
                      [j \in DOMAIN at |-> tb[at[j]]])[Len(at) + 1 - n]]

\* nth_largest_shape_in_list(shapes, n, slice_idx, image_shape) of a list of
\* polygons or a list of masks; slice_idx is None or an int.  With masks of
\* more than one column and a slice_idx, `np.round(shape[0][0]) == slice_idx`
\* is an array, whose truth value is a ValueError.
nth_largest_shape_in_list(list, n, slice_idx, image_shape, tb) ==
    IF Len(list) = 0 THEN Raise("ValueError")
    ELSE IF n > Len(list) \/ n < 1 THEN Raise("ValueError")
    ELSE IF slice_idx = NoneV \/ slice_idx.i < 0
    THEN IF \A i \in DOMAIN list : list[i].dtype = "bool"
         THEN AllPlanes(list, n, image_shape, tb)
         ELSE Raise("NotImplementedError")
    ELSE IF \A i \in DOMAIN list : list[i].dtype = "bool"
    THEN Raise("ValueError")
    ELSE FixedSlice(list, OnSlice(list, slice_idx.i), n, tb)

\* the list comprehension of n_largest_shapes_in_list from i on, acc being
\* the shapes found so far and v the result of the call for i
RECURSIVE Comprehension(_, _, _, _, _, _, _, _)
Comprehension(list, i, v, n, slice_idx, image_shape, tb, acc) ==
    IF i > n THEN PyList(acc)
    ELSE IF IsRaise(v) THEN v
    ELSE Comprehension(list, i + 1,
                       nth_largest_shape_in_list(list, i + 1, slice_idx, image_shape, tb),
                       n, slice_idx, image_shape, tb, Append(acc, v))

\* n_largest_shapes_in_list: the list of the results of
\* nth_largest_shape_in_list for 1..n, or the first exception
n_largest_shapes_in_list(list, n, slice_idx, image_shape, tb) ==
    Comprehension(list, 1, nth_largest_shape_in_list(list, 1, slice_idx, image_shape, tb),
                  n, slice_idx, image_shape, tb, <<>>)

----------------------------------------------------------------------------
(* Angles.  Floats that hold an angle count sixtieths of a turn (TurnUnits  *)
(* is 2 * np.pi), which holds every value of np.linspace over a turn for up  *)
(* to six segments.  The angle of a pixel, np.angle(z) in [-pi, pi], is kept *)
(* exactly, as np.angle(z) + pi = m * pi + phi, where phi in [0, pi) is the  *)
(* direction (re, im) of the upper half plane; such angles add and compare   *)
(* without rounding, also when they are multiplied past a turn.              *)

TurnUnits == 60

\* np.linspace(start, stop, num, endpoint = False), in sixtieths of a turn
linspace(start, stop, num) ==
    [i \in 1..num |-> start + ((i - 1) * (stop - start)) \div num]

\* the angle m * pi
Pi(m) == [m |-> m, re |-> 1, im |-> 0]

\* the angle of nan
NaNAngle == [m |-> -1, re |-> 0, im |-> 0]

\* the direction (re, im) in lowest terms
Direction(m, re, im) ==
    [m |-> m, re |-> re \div GCD(Abs(re), Abs(im)), im |-> im \div GCD(Abs(re), Abs(im))]

\* np.angle(re + im * 1j), the zero imaginary part being +0.0: arctan2(0, 0)
\* is 0 and arctan2(0, negative) is +pi
np_angle(re, im) ==
    IF im < 0 THEN Direction(0, -re, -im)
    ELSE IF im > 0 THEN Direction(1, re, im)
    ELSE IF re >= 0 THEN Pi(1)
    ELSE Pi(2)

\* -angle (of nan, nan)
Negated(a) ==
    IF a = NaNAngle THEN a
    ELSE IF a.im = 0 THEN Pi(2 - a.m)
    ELSE [m |-> 1 - a.m, re |-> -a.re, im |-> a.im]

\* the sum of two angles m * pi + phi (not shifted by pi)
AngleSum(a, b) ==
    LET re == a.re * b.re - a.im * b.im
        im == a.re * b.im + a.im * b.re
    IN  IF im > 0 \/ (im = 0 /\ re > 0)
        THEN Direction(a.m + b.m, re, im)
        ELSE Direction(a.m + b.m + 1, -re, -im)

\* k times an angle; nan stays nan
RECURSIVE AngleTimes(_, _)
AngleTimes(k, a) ==
    IF a = NaNAngle THEN a
    ELSE IF k = 0 THEN Pi(0) ELSE AngleSum(a, AngleTimes(k - 1, a))

\* a < b and a <= b; every comparison with nan is False
AngleLess(a, b) ==
    /\ a.m >= 0 /\ b.m >= 0
    /\ a.m < b.m \/ (a.m = b.m /\ a.re * b.im - a.im * b.re > 0)

AngleLeq(a, b) ==
    /\ a.m >= 0 /\ b.m >= 0
    /\ a.m < b.m \/ (a.m = b.m /\ a.re * b.im - a.im * b.re >= 0)

----------------------------------------------------------------------------
(* Ellipse.segment and segment_ellipse (ellipsoid_body/rois/ellipse.py).    *)
(* The model constructs ellipses of orientation 0.0 only, for which the      *)
(* rotation by np.exp(-1j * orientation) = 1 - 0j leaves every element of    *)
(* cplx_mask as it is.                                                       *)

\* np.logical_and with numpy's broadcasting of arrays of the same ndim
np_logical_and(a, b) ==
    IF Len(a.shape) # Len(b.shape)
       \/ \E ax \in DOMAIN a.shape :
            a.shape[ax] # b.shape[ax] /\ a.shape[ax] # 1 /\ b.shape[ax] # 1
    THEN Raise("ValueError")
    ELSE LET out == [ax \in DOMAIN a.shape |-> Max(a.shape[ax], b.shape[ax])]
         IN  ndarray("bool", out,
                [k \in 1..Product(out) |->
                    IF a.data[BroadcastIndex(a.shape, out, k, 1)] # 0
                       /\ b.data[BroadcastIndex(b.shape, out, k, 1)] # 0
                    THEN 1 ELSE 0])

\* a[p], the plane p (from 0) of an array
Slice(a, p) == ndarray(a.dtype, Tail(a.shape), Plane(a, p))

\* a sequence, element by element
AsTuple(f) == f \o <<>>

RECURSIVE Flatten(_)
Flatten(seqs) == IF seqs = <<>> THEN <<>> ELSE Head(seqs) \o Flatten(Tail(seqs))

\* np.array(arrays) of arrays of one shape
np_array(arrays) ==
    ndarray(arrays[1].dtype, <<Len(arrays)>> \o arrays[1].shape,
            Flatten([k \in DOMAIN arrays |-> arrays[k].data]))

\* np.angle of the element [i, j] of cplx_mask.  The grids of
\* np.meshgrid(arange(shape[0]), arange(shape[1])) have the shape
\* (shape[1], shape[0]), with grid_xx[i, j] = j and grid_yy[i, j] = i; the
\* element is ((j - center_pt[1]) - 1j * (i - center_pt[0])) * -1j, and its
\* reciprocal for the posterior view (nan at the center).  The coordinates
\* of center_pt are fractions <<numerator, denominator>>, nan being <<0, 0>>.
RotatedAngle(i, j, center_pt, view_direction) ==
    IF center_pt[1][2] = 0 \/ center_pt[2][2] = 0 THEN NaNAngle
    ELSE LET re == (center_pt[1][1] - i * center_pt[1][2]) * center_pt[2][2]
             im == (center_pt[2][1] - j * center_pt[2][2]) * center_pt[1][2]
         IN  IF view_direction # POSTERIOR THEN np_angle(re, im)
             ELSE IF re = 0 /\ im = 0 THEN NaNAngle
             ELSE Negated(np_angle(re, im))

\* n_segments * (np.angle(cplx_mask) + pi), element by element (row-major)
SpokeAngles(shp, center_pt, n_segments, view_direction) ==
    AsTuple([k \in 1..(shp[1] * shp[2]) |->
                AngleTimes(n_segments,
                           RotatedAngle((k - 1) \div shp[1], (k - 1) % shp[1],
                                        center_pt, view_direction))])

\* (np.angle(cplx_mask) >= angles[seg]) * (np.angle(cplx_mask) < angles[seg + 1])
\* for angles = np.linspace(-pi, pi, n_segments + 1), whose value i is
\* -pi + i * 2 * pi / n_segments: an array of the shape of the grids
Spoke(shp, turns, seg) ==
    ndarray("bool", <<shp[2], shp[1]>>,
        [k \in 1..(shp[1] * shp[2]) |->
            IF AngleLeq(Pi(2 * seg), turns[k]) /\ AngleLess(turns[k], Pi(2 * seg + 2))
            THEN 1 ELSE 0])

\* the list that segment_ellipse returns; np.logical_and fails when grid and
\* mask do not broadcast
Spokes(ellipse_mask, turns, n_segments) ==
    IF n_segments >= 1
       /\ IsRaise(np_logical_and(Spoke(ellipse_mask.shape, turns, 0), ellipse_mask))
    THEN Raise("ValueError")
    ELSE PyList([seg \in 1..n_segments |->
                    np_logical_and(Spoke(ellipse_mask.shape, turns, seg - 1),
                                   ellipse_mask)])

\* segment_ellipse: the list of the n_segments masks, or what it raises:
\* center_pt[1] needs two coordinates, and the two grids cannot be unpacked
\* unless the mask is 2-D
segment_ellipse(ellipse_mask, center_pt, orientation, n_segments, view_direction) ==
    IF IsRaise(ViewDirection(view_direction)) THEN ViewDirection(view_direction)
    ELSE IF Len(center_pt) < 2 THEN Raise("IndexError")
    ELSE IF Len(ellipse_mask.shape) # 2 THEN Raise("ValueError")
    ELSE Spokes(ellipse_mask,
                SpokeAngles(ellipse_mask.shape, center_pt, n_segments,
                            ViewDirection(view_direction)),
                n_segments)

\* the center handed to segment_ellipse for the plane p: self.center(plane = p),
\* or the center of mass of the plane p of the center mask
SliceCenter(self, p) ==
    IF self.attrs["center_poly"] = NoneV THEN center_of_mass(Slice(mask(self), p))
    ELSE center_of_mass(Slice(self.attrs["center_poly"], p))

\* slicewise_segments: segment_ellipse of each plane of the mask
slicewise_segments(self, n_segments) ==
    [q \in 1..mask(self).shape[1] |->
        IF self.attrs["center_poly"] # NoneV /\ q > self.attrs["center_poly"].shape[1]
        THEN Raise("IndexError")
        ELSE segment_ellipse(Slice(mask(self), q - 1), SliceCenter(self, q - 1),
                             self.attrs["orientation"], n_segments,
                             self.attrs["view_direction"])]

\* np.swapaxes(np.array(slicewise), 0, 1): for each segment the stack of its
\* planes; or the first exception of slicewise
Swapped(slicewise, n_segments) ==
    IF \E q \in DOMAIN slicewise : IsRaise(slicewise[q])
    THEN slicewise[CHOOSE q \in DOMAIN slicewise :
                        /\ IsRaise(slicewise[q])
                        /\ \A r \in 1..(q - 1) : ~IsRaise(slicewise[r])]
    ELSE PyList([seg \in 1..n_segments |->
                    np_array([q \in DOMAIN slicewise |-> slicewise[q].items[seg]])])

\* the masks of Ellipse.segment
WedgeMasks(self, n_segments) ==
    IF self.slice_idx = NoneV
    THEN Swapped(slicewise_segments(self, n_segments), n_segments)
    ELSE segment_ellipse(mask(self),
                         IF self.attrs["center_poly"] = NoneV THEN center_of_mass(mask(self))
                         ELSE center_of_mass(self.attrs["center_poly"]),
                         self.attrs["orientation"], n_segments,
                         self.attrs["view_direction"])

\* Wedges with the phases of np.linspace(0, 2 * np.pi, n_segments, endpoint = False)
Wedges_from_zero(self, masks, n_segments) ==
    [i \in 1..n_segments |->
        WedgeROI_init(masks[i], NoneV, shape(self),
                      NpFloat(linspace(0, TurnUnits, n_segments)[i]),
                      self.slice_idx, self.attrs["view_direction"],
                      [name |-> PyStr("Wedge " \o NatToStr(i - 1)), subROIs |-> Unset,
                       info_string |-> Unset])]

\* the WedgeROIs made of the masks, their phases taken from
\* np.linspace(-np.pi, np.pi, n_segments, endpoint = False)
Wedges(self, masks, n_segments) ==
    [i \in 1..n_segments |->
        WedgeROI_init(masks[i], NoneV, shape(self),
                      NpFloat(linspace(-(TurnUnits \div 2), TurnUnits \div 2, n_segments)[i]),
                      self.slice_idx, self.attrs["view_direction"],
                      [name |-> PyStr("Wedge " \o NatToStr(i - 1)), subROIs |-> Unset,
                       info_string |-> Unset])]

\* self.subROIs = [WedgeROI(..) ..], unless the masks could not be made
WithWedges(self, masks, n_segments) ==
    IF IsRaise(masks) THEN masks
    ELSE [self EXCEPT !.subROIs = Wedges(self, masks.items, n_segments)]

\* Ellipse.segment(n_segments): the ellipse with its new wedges, or what is
\* raised (the argument viewed_from is not used)
Ellipse_segment(self, n_segments) ==
    IF self.attrs["center_poly"] # NoneV /\ self.attrs["center_poly"].dtype # "bool"
    THEN Raise("TypeError")
    ELSE IF IsRaise(mask(self)) THEN mask(self)
    ELSE WithWedges(self, WedgeMasks(self, n_segments), n_segments)

----------------------------------------------------------------------------
(* Fan.segment and fit_triangles (fan_shaped_body/rois/fan.py), for fans of   *)
(* orientation 0.0, for which np.exp(-1j * orientation) and                  *)
(* np.exp(1j * orientation) leave every number they multiply as it is.       *)

\* a - b of two angles np.angle(z) + pi with b <= a
AngleDiff(a, b) ==
    LET re == a.re * b.re + a.im * b.im
        im == a.im * b.re - a.re * b.im
    IN  IF im > 0 \/ (im = 0 /\ re > 0) THEN Direction(a.m - b.m, re, im)
        ELSE Direction(a.m - b.m - 1, -re, -im)

\* np.imag(cplx_mask * np.exp(-1j * orientation)) * slice_mask, times the
\* denominator of centroid[0]: the row below the centroid, 0 out of the mask
Downward(slice_mask, centroid) ==
    [k \in DOMAIN slice_mask.data |->
        IF slice_mask.data[k] # 0
        THEN Coord(slice_mask.shape, k, 1) * centroid[1][2] - centroid[1][1]
        ELSE 0]

\* np.argmax: the first of the positions (from 1, row-major) of the maximum
np_argmax(v) ==
    CHOOSE k \in DOMAIN v :
        /\ \A j \in DOMAIN v : v[j] <= v[k]
        /\ \A j \in 1..(k - 1) : v[j] < v[k]

\* the row of most_downward_along_orientation
MostDownward(slice_mask, centroid) ==
    Coord(slice_mask.shape, np_argmax(Downward(slice_mask, centroid)), 1)

\* `angles`: -np.angle(new_grid) * slice_mask, negated for the posterior view,
\* where new_grid[row, col] = (col - centroid[1]) + 1j * (row_md - row), the
\* offset from the hub point (here times the denominator of centroid[1]); it
\* is 0 out of the mask
HubAngles(slice_mask, centroid, row_md, view_direction) ==
    AsTuple([k \in DOMAIN slice_mask.data |->
        IF slice_mask.data[k] = 0 THEN Pi(1)
        ELSE IF view_direction = POSTERIOR
        THEN np_angle(Coord(slice_mask.shape, k, 2) * centroid[2][2] - centroid[2][1],
                      (row_md - Coord(slice_mask.shape, k, 1)) * centroid[2][2])
        ELSE Negated(np_angle(Coord(slice_mask.shape, k, 2) * centroid[2][2] - centroid[2][1],
                              (row_md - Coord(slice_mask.shape, k, 1)) * centroid[2][2]))])

\* angles.min() and angles.max()
angles_min(angles) ==
    angles[CHOOSE k \in DOMAIN angles :
                /\ \A j \in DOMAIN angles : AngleLeq(angles[k], angles[j])
                /\ \A j \in 1..(k - 1) : angles[j] # angles[k]]
angles_max(angles) ==
    angles[CHOOSE k \in DOMAIN angles :
                /\ \A j \in DOMAIN angles : AngleLeq(angles[j], angles[k])
                /\ \A j \in 1..(k - 1) : angles[j] # angles[k]]

\* n_segments * (angles - lo), element by element
Spread(angles, lo, n_segments) ==
    AsTuple([k \in DOMAIN angles |-> AngleTimes(n_segments, AngleDiff(angles[k], lo))])

\* the masks of a plane with some pixel set: (angles >= lb) * (angles < ub)
\* and slice_mask for the bins of
\* angle_boundaries = np.linspace(lo, hi, n_segments + 1); the boundary i is
\* lo + i * (hi - lo) / n_segments, so  angle >= boundary i  is
\* n_segments * (angle - lo) >= i * (hi - lo)
Triangles(slice_mask, spread, range, n_segments) ==
    PyList([seg \in 1..n_segments |->
        ndarray("bool", slice_mask.shape,
                [k \in DOMAIN slice_mask.data |->
                    IF /\ slice_mask.data[k] # 0
                       /\ AngleLeq(AngleTimes(seg - 1, range), spread[k])
                       /\ AngleLess(spread[k], AngleTimes(seg, range))
                    THEN 1 ELSE 0])])

\* the bins of `angles`, from angles.min() to angles.max()
Binned(slice_mask, angles, n_segments) ==
    Triangles(slice_mask, Spread(angles, angles_min(angles), n_segments),
              AngleDiff(angles_max(angles), angles_min(angles)), n_segments)

\* the angles about the hub of a plane of the centroid `centroid`
Hubbed(slice_mask, centroid, n_segments, view_direction) ==
    Binned(slice_mask,
           HubAngles(slice_mask, centroid, MostDownward(slice_mask, centroid),
                     view_direction),
           n_segments)

\* _single_segmentation failing on a plane with no pixel set
single_segmentation_unguarded(slice_mask, orientation, n_segments, view_direction) ==
    IF \A k \in DOMAIN slice_mask.data : slice_mask.data[k] = 0
    THEN Raise("ValueError")
    ELSE IF Len(slice_mask.shape) < 2 THEN Raise("IndexError")
    ELSE IF Len(slice_mask.shape) > 2 THEN Raise("ValueError")
    ELSE IF orientation.t \notin {"float", "int"} THEN Raise("TypeError")
    ELSE IF IsRaise(ViewDirection(view_direction)) THEN ViewDirection(view_direction)
    ELSE Hubbed(slice_mask, center_of_mass(slice_mask), n_segments,
                ViewDirection(view_direction))

\* _single_segmentation: the n_segments masks of a plane, or what it raises:
\* centroid[1] needs a 2-D plane, the grids of a plane of more dimensions
\* cannot be unpacked, and -1j * orientation needs a number
single_segmentation(slice_mask, orientation, n_segments, view_direction) ==
    IF \A k \in DOMAIN slice_mask.data : slice_mask.data[k] = 0
    THEN PyList([seg \in 1..n_segments |->
                    ndarray(slice_mask.dtype, slice_mask.shape,
                            [k \in DOMAIN slice_mask.data |-> 0])])
    ELSE IF Len(slice_mask.shape) < 2 THEN Raise("IndexError")
    ELSE IF Len(slice_mask.shape) > 2 THEN Raise("ValueError")
    ELSE IF orientation.t \notin {"float", "int"} THEN Raise("TypeError")
    ELSE IF IsRaise(ViewDirection(view_direction)) THEN ViewDirection(view_direction)
    ELSE Hubbed(slice_mask, center_of_mass(slice_mask), n_segments,
                ViewDirection(view_direction))

\* the Columns made of the masks, their phases taken from
\* np.linspace(0, 2 * np.pi, n_segments, endpoint = False), reversed when
\* mirrored
Columns(masks, n_segments, viewed_from, mirrored) ==
    [i \in 1..n_segments |->
        Column_init(masks[i], NoneV,
                    Tuple([ax \in DOMAIN masks[i].shape |-> PyInt(masks[i].shape[ax])]),
                    NpFloat(IF mirrored.b
                            THEN Reverse(linspace(0, TurnUnits, n_segments))[i]
                            ELSE linspace(0, TurnUnits, n_segments)[i]),
                    NoneV, viewed_from, NoKwargs)]

\* the stack (segment, slice, y, x) of the masks of every plane
TriangleMasks(m, orientation, n_segments, viewed_from) ==
    Swapped([q \in 1..m.shape[1] |->
                single_segmentation(Slice(m, q - 1), orientation, n_segments, viewed_from)],
            n_segments)

\* the list [Column(..) ..], unless the masks could not be made
ColumnList(masks, n_segments, viewed_from, mirrored) ==
    IF IsRaise(masks) THEN masks
    ELSE PyList(Columns(masks.items, n_segments, viewed_from, mirrored))

\* fit_triangles: the list of Columns, or what is raised
fit_triangles(m, orientation, n_segments, viewed_from, mirrored) ==
    ColumnList(TriangleMasks(m, orientation, n_segments, viewed_from),
               n_segments, viewed_from, mirrored)

TRIANGLES == Enum("FanSegmentationMethod", "triangles")
MIDLINE == Enum("FanSegmentationMethod", "midline")

\* FanSegmentationMethod(method): the member itself, or the member of that value
FanSegmentationMethod(method) ==
    IF method.t = "enum" /\ method.cls = "FanSegmentationMethod" THEN method
    ELSE IF method.t = "str" /\ method.s \in {"triangles", "midline"}
    THEN Enum("FanSegmentationMethod", method.s)
    ELSE Raise("ValueError")

\* self.subROIs = fit_triangles(..), unless it raised
WithColumns(self, columns) ==
    IF IsRaise(columns) THEN columns ELSE [self EXCEPT !.subROIs = columns.items]

\* Fan.segment(n_segments, method, viewed_from): the fan with its new columns,
\* or what is raised
Fan_segment(self, n_segments, method, viewed_from) ==
    IF IsRaise(FanSegmentationMethod(method)) THEN FanSegmentationMethod(method)
    ELSE IF FanSegmentationMethod(method) = MIDLINE THEN Raise("NotImplementedError")
    ELSE IF IsRaise(mask(self)) THEN mask(self)
    ELSE WithColumns(self, fit_triangles(mask(self), self.attrs["orientation"],
                                         n_segments, viewed_from, self.attrs["mirrored"]))

----------------------------------------------------------------------------
(* The ordering operations of GlobularMustache                              *)
(* (protocerebral_bridge/rois/mustache.py).  A sort key is a fraction         *)
(* <<numerator, denominator>>, nan being <<0, 0>>, or None.                   *)

\* the orders of n things
Perms(n) == { q \in [1..n -> 1..n] : \A i, j \in 1..n : q[i] = q[j] => i = j }

\* the list in the order q
Permuted(list, q) == [i \in DOMAIN list |-> list[q[i]]]

KeyLess(a, b) == a[1] * b[2] < b[1] * a[2]

\* the keys are numbers that compare (no None and no nan among them)
Comparable(keys) == \A i \in DOMAIN keys : keys[i] # NoneV /\ keys[i][2] # 0

\* list.sort that takes no notice of `reverse`
sorted_ascending(keys, reverse) ==
    CHOOSE q \in Perms(Len(keys)) :
        \A i, j \in DOMAIN keys : i < j =>
            \/ KeyLess(keys[q[i]], keys[q[j]])
            \/ keys[q[i]] = keys[q[j]] /\ q[i] < q[j]

\* the order list.sort(key = .., reverse = ..) leaves: ascending and stable,
\* or descending and stable
sorted(keys, reverse) ==
    CHOOSE q \in Perms(Len(keys)) :
        \A i, j \in DOMAIN keys : i < j =>
            \/ IF reverse THEN KeyLess(keys[q[j]], keys[q[i]])
                          ELSE KeyLess(keys[q[i]], keys[q[j]])
            \/ keys[q[i]] = keys[q[j]] /\ q[i] < q[j]

\* the orders list.sort can leave: comparing None raises TypeError, after
\* which the list is left in an order that Python does not specify; nor does
\* it specify the order in which keys that are nan are left
Sorts(keys, reverse) ==
    IF Comparable(keys) \/ (Len(keys) < 2 /\ \A i \in DOMAIN keys : keys[i] # NoneV)
    THEN { [exc |-> "none", order |-> sorted(keys, reverse)] }
    ELSE IF Len(keys) >= 2 /\ \E i \in DOMAIN keys : keys[i] = NoneV
    THEN { [exc |-> "TypeError", order |-> q] : q \in Perms(Len(keys)) }
    ELSE { [exc |-> "none", order |-> q] : q \in Perms(Len(keys)) }

\* the keys of sort_glomeruli_by_phase
PhaseKeys(subROIs) ==
    [i \in DOMAIN subROIs |->
        IF subROIs[i].attrs["pseudophase"] = NoneV THEN NoneV
        ELSE <<subROIs[i].attrs["pseudophase"].x, 1>>]

\* x.center()[axis] for an axis that the centers have
CenterKeys(subROIs, axis) ==
    [i \in DOMAIN subROIs |->
        center(subROIs[i]).items[IF axis < 0 THEN Len(center(subROIs[i]).items) + 1 + axis
                                 ELSE axis + 1]]

\* whether center()[axis] is an IndexError for some glomerulus
BadAxis(subROIs, axis) ==
    \E i \in DOMAIN subROIs :
        axis >= Len(center(subROIs[i]).items) \/ -axis > Len(center(subROIs[i]).items)

\* a coordinate of a center, in halves of a pixel
Halves(c) == (2 * c[1]) \div c[2]

\* the square root of a square
Isqrt(x) == CHOOSE r \in 0..x : r * r = x

\* np.linalg.norm(a - b), in halves of a pixel
norm(a, b) ==
    Isqrt(SumOver([ax \in DOMAIN a |->
                      (Halves(a[ax]) - Halves(b[ax])) * (Halves(a[ax]) - Halves(b[ax]))],
                  Len(a)))

\* dists[i, j] (from 0) with the row and the column of the depot, which is
\* the node Len(centers)
dists(centers, i, j) ==
    IF i = Len(centers) \/ j = Len(centers) THEN 0
    ELSE norm(centers[i + 1], centers[j + 1])

\* the cycles through the nodes 0 .. n that start at the node 0
Tours(n) == { <<0>> \o q : q \in Perms(n) }

\* the length of a cycle
TourLength(centers, path) ==
    SumOver([k \in DOMAIN path |->
                dists(centers, path[k], path[(k % Len(path)) + 1])], Len(path))

\* the permutations solve_tsp_dynamic_programming(dists) can return: a
\* shortest cycle, which one of several is not specified, and any cycle when
\* some distance is nan
solve_tsp_dynamic_programming(centers) ==
    IF \E i \in DOMAIN centers : \E ax \in DOMAIN centers[i] : centers[i][ax][2] = 0
    THEN Tours(Len(centers))
    ELSE { path \in Tours(Len(centers)) :
            \A other \in Tours(Len(centers)) :
                TourLength(centers, path) <= TourLength(centers, other) }

\* the path as the solver returned it, without the depot
Snake_unturned(path) == SelectSeq(path, LAMBDA node : node # Len(path) - 1)

\* path[start_idx:] + path[:start_idx] for start_idx = np.argmax(path),
\* without the depot
Snake(path) ==
    LET start_idx == CHOOSE k \in DOMAIN path :
                        /\ \A j \in DOMAIN path : path[j] <= path[k]
                        /\ \A j \in 1..(k - 1) : path[j] < path[k]
        turned == SubSeq(path, start_idx, Len(path)) \o SubSeq(path, 1, start_idx - 1)
    IN  SelectSeq(turned, LAMBDA node : node # Len(path) - 1)

----------------------------------------------------------------------------
(* use_ellipse.  ExtraRois is the enumeration of protocols/extra_rois.py:  *)
(* what the shapes other than the largest are for, CENTER or nothing.      *)

ExtraRoisValues == {"center", "none"}
CENTER == Enum("ExtraRois", "center")
NONE == Enum("ExtraRois", "none")

\* ExtraRois(v): the member itself, or the member of that value
ExtraRois(v) ==
    IF v.t = "enum" /\ v.cls = "ExtraRois" THEN v
    ELSE IF v.t = "str" /\ v.s \in ExtraRoisValues THEN Enum("ExtraRois", v.s)
    ELSE Raise("ValueError")

np_logical_not(a) ==
    ndarray("bool", a.shape, [k \in DOMAIN a.data |-> IF a.data[k] # 0 THEN 0 ELSE 1])

\* a.any()
any(a) == \E k \in DOMAIN a.data : a.data[k] # 0

\* all([ellipse.dtype == bool for ellipse in ellipses])
FROM_MASK(ellipses) == \A i \in DOMAIN ellipses : ellipses[i].dtype = "bool"

\* slice_idx = None if (slice_idx is None) or (slice_idx < 0) else slice_idx
NormalSlice(slice_idx) ==
    IF slice_idx = NoneV THEN NoneV ELSE IF slice_idx.i < 0 THEN NoneV ELSE slice_idx

\* slicewise_idx of a plane: np.argsort of np.sum of the whole masks `at`
\* (positions in ellipses) that have pixels in the plane
slicewise_idx(ellipses, at, tb) ==
    argsort([j \in DOMAIN at |-> np_sum(ellipses[at[j]])], [j \in DOMAIN at |-> tb[at[j]]])

\* slicewise_biggest_ellipse of a plane
slicewise_biggest_ellipse(ellipses, at, image_shape, tb) ==
    IF Len(at) = 0 THEN np_zeros(image_shape)
    ELSE ellipses[at[slicewise_idx(ellipses, at, tb)[Len(at)]]]

\* slicewise_next_biggest_ellipse of a plane: the mask at sorted_slicewise[-2],
\* whole, when it has a pixel in common with main_ellip, and zeros otherwise
NextBiggest(next, main_ellip, image_shape) ==
    IF any(np_logical_and(next, main_ellip)) THEN next ELSE np_zeros(image_shape)

\* the next biggest of a plane, cut to main_ellip
slicewise_next_biggest_ellipse_inside(ellipses, at, main_ellip, image_shape, tb) ==
    IF Len(at) > 1
    THEN np_logical_and(ellipses[at[slicewise_idx(ellipses, at, tb)[Len(at) - 1]]], main_ellip)
    ELSE np_zeros(image_shape)

slicewise_next_biggest_ellipse(ellipses, at, main_ellip, image_shape, tb) ==
    IF Len(at) > 1
    THEN NextBiggest(ellipses[at[slicewise_idx(ellipses, at, tb)[Len(at) - 1]]],
                     main_ellip, image_shape)
    ELSE np_zeros(image_shape)

\* `np.round(ellipse[0][0]) == slice_idx` in an `if`: of a polygon, whether
\* its first vertex rounds to the slice; of a mask, the comparison of its
\* first row with slice_idx, that has a truth value only if the row has one
\* pixel
OnSliceOrRaise(ellipses, slice_idx) ==
    IF ~FROM_MASK(ellipses) THEN PyList(OnSlice(ellipses, slice_idx))
    ELSE IF \E i \in DOMAIN ellipses : ellipses[i].shape[Len(ellipses[i].shape)] # 1
    THEN Raise("ValueError")
    ELSE PyList(SelectSeq([i \in 1..Len(ellipses) |-> i],
                          LAMBDA i : ellipses[i].data[1] = slice_idx))

\* size_sorted_idx: np.argsort of the sizes of the shapes `at` of the slice
size_sorted_idx(ellipses, at, tb) ==
    argsort([j \in DOMAIN at |-> IF FROM_MASK(ellipses) THEN np_sum(ellipses[at[j]])
                                  ELSE polygon_area(ellipses[at[j]])],
            [j \in DOMAIN at |-> tb[at[j]]])

\* ellipses[size_sorted_idx[-n]]: a position in the sorted sizes of the
\* slice indexes the whole list
Sized(ellipses, at, n, tb) ==
    IF IsRaise(at) THEN at
    ELSE IF n > Len(at.items) THEN Raise("IndexError")
    ELSE ellipses[size_sorted_idx(ellipses, at.items, tb)[Len(at.items) + 1 - n]]

\* main_ellip of lines 99-140; slice_idx is None or an int >= 0
MainEllipse(ellipses, image_shape, slice_idx, tb) ==
    IF slice_idx = NoneV
    THEN IF FROM_MASK(ellipses)
         THEN logical_or_reduce([q \in 1..image_shape[1] |->
                slicewise_biggest_ellipse(ellipses, InPlane(ellipses, q - 1), image_shape, tb)])
         ELSE Raise("NotImplementedError")
    ELSE Sized(ellipses, OnSliceOrRaise(ellipses, slice_idx.i), 1, tb)

\* center of lines 149-171
Center(ellipses, main_ellip, image_shape, slice_idx, tb) ==
    IF slice_idx = NoneV
    THEN IF FROM_MASK(ellipses)
         THEN logical_or_reduce([q \in 1..image_shape[1] |->
                slicewise_next_biggest_ellipse(ellipses, InPlane(ellipses, q - 1),
                                               main_ellip, image_shape, tb)])
         ELSE NoneV
    ELSE Sized(ellipses, OnSliceOrRaise(ellipses, slice_idx.i), 2, tb)

\* main_ellip after lines 166-176
Hollowed(ellipses, main_ellip, center_mask) ==
    IF FROM_MASK(ellipses) /\ center_mask # NoneV
    THEN np_logical_and(main_ellip, np_logical_not(center_mask))
    ELSE main_ellip

\* the point (y, x) number i (from 0) of the line of an anatomy reference
EndPoint(line, i) ==
    <<line.data[(i + 1) * line.shape[2] - 1], line.data[(i + 1) * line.shape[2]]>>

\* np.angle in sixtieths of a turn, of an angle along an axis
Turns(a) ==
    a.m * (TurnUnits \div 2) + (IF a.im = 0 THEN 0 ELSE TurnUnits \div 4) - TurnUnits \div 2

\* np.angle(1j * start_to_end) of a line along an axis
LineAngle(line) ==
    NpFloat(Turns(np_angle(EndPoint(line, 1)[1] - EndPoint(line, 0)[1],
                           EndPoint(line, 1)[2] - EndPoint(line, 0)[2])))

\* orientation of lines 178-188
Orientation(anatomy_reference) ==
    IF anatomy_reference = NoneV THEN PyFloat(0)
    ELSE IF anatomy_reference.t = "list"
    THEN IF Len(anatomy_reference.items) = 0 THEN PyFloat(0)
         ELSE LineAngle(anatomy_reference.items[1])
    ELSE LineAngle(anatomy_reference)

\* lines 142-199, main_ellip being selected
WithMain(ellipses, main_ellip, center_mask, anatomy_reference, image_shape, view_direction, slice_idx) ==
    IF IsRaise(main_ellip) THEN main_ellip
    ELSE IF IsRaise(center_mask) THEN center_mask
    ELSE Ellipse_init(IF FROM_MASK(ellipses) THEN Hollowed(ellipses, main_ellip, center_mask) ELSE NoneV,
                      IF FROM_MASK(ellipses) THEN NoneV ELSE main_ellip,
                      image_shape, slice_idx, Orientation(anatomy_reference), center_mask,
                      view_direction, NoKwargs)

\* center of lines 142-171
ExtraCenter(ellipses, main_ellip, image_shape, slice_idx, extra, tb) ==
    IF IsRaise(main_ellip) THEN main_ellip
    ELSE IF IsRaise(extra) THEN extra
    ELSE IF extra # CENTER THEN NoneV
    ELSE IF Len(ellipses) < 2 THEN Raise("ValueError")
    ELSE Center(ellipses, main_ellip, image_shape, slice_idx, tb)

Selected(ellipses, main_ellip, anatomy_reference, image_shape, view_direction, slice_idx, extra_rois, tb) ==
    WithMain(ellipses, main_ellip,
             ExtraCenter(ellipses, main_ellip, image_shape, slice_idx, ExtraRois(extra_rois), tb),
             anatomy_reference, image_shape, view_direction, slice_idx)

\* use_ellipse(ellipses, anatomy_reference, image_shape, view_direction,
\* slice_idx, extra_rois), the sorts ordering equal sizes as tb does
use_ellipse(ellipses, anatomy_reference, image_shape, view_direction, slice_idx, extra_rois, tb) ==
    IF Len(ellipses) = 0 THEN Raise("ValueError")
    ELSE Selected(ellipses, MainEllipse(ellipses, image_shape, NormalSlice(slice_idx), tb),
                  anatomy_reference, image_shape, view_direction, NormalSlice(slice_idx),
                  extra_rois, tb)

----------------------------------------------------------------------------
(* Inputs of the object specification                                      *)

MaskA == ndarray("bool", <<1, 2>>, <<1, 0>>)
MaskB == ndarray("bool", <<1, 2>>, <<0, 1>>)
\* a mask of another image, which does not broadcast against MaskA
MaskW == ndarray("bool", <<1, 3>>, <<0, 0, 1>>)
PolyP == ndarray("float64", <<3, 2>>, <<0, 0, 0, 2, 2, 0>>)
ShapeS == Tuple(<<PyInt(1), PyInt(2)>>)

\* (mask, polygon, image_shape) as handed to the constructor
FuseArgs ==
    { <<MaskA, NoneV, NoneV>>, <<MaskB, NoneV, NoneV>>, <<MaskW, NoneV, NoneV>>,
      <<NoneV, PolyP, ShapeS>> }

RECURSIVE SeqsUpTo(_, _)
SeqsUpTo(S, n) ==
    IF n = 0 THEN { <<>> }
    ELSE LET shorter == SeqsUpTo(S, n - 1)
         IN  shorter \cup { Append(q, x) : q \in shorter, x \in S }

----------------------------------------------------------------------------
(* The object specification: construction and fusion                       *)

NoCall == [op |-> "none", exc |-> "none", ref |-> 0, new |-> NoneV]

Init ==
    /\ rois = <<>>
    /\ files = EmptyFn
    /\ saved = EmptyFn
    /\ ret = NoCall
    /\ shapes = <<>>

\* the caller's  r = ROI(mask = a[1], polygon = a[2], image_shape = a[3], ...)
\* with room for `max` objects
NewROI(a, nm, slice_idx, info_string, max) ==
    /\ LET o == ROI_init("ROI", a[1], a[2], a[3], nm, slice_idx, PyList(<<>>), info_string)
       IN  /\ IsRaise(o) \/ Len(rois) < max
           /\ rois' = IF IsRaise(o) THEN rois ELSE Append(rois, o)
           /\ ret' = [op |-> "ROI", exc |-> IF IsRaise(o) THEN o.exc ELSE "none",
                      ref |-> IF IsRaise(o) THEN 0 ELSE Len(rois) + 1, new |-> NoneV,
                      mask |-> a[1], polygon |-> a[2], image_shape |-> a[3]]
    /\ UNCHANGED <<files, saved, shapes>>

\* ROI.from_rois(list)
FromRois(list) ==
    /\ LET r == from_rois(rois, list, NoneV)
       IN  /\ rois' = r.heap
           /\ ret' = [op |-> "from_rois", exc |-> r.exc, ref |-> r.ref, new |-> r.new,
                      list |-> list]
    /\ UNCHANGED <<files, saved, shapes>>

\* a += b, with a = rois[i] and b = rois[j], or b a bare mask when j is 0
IAdd(i, j) ==
    /\ LET r == iadd(rois, i, IF j = 0 THEN MaskB ELSE rois[j])
       IN  /\ rois' = r.heap
           /\ ret' = [op |-> "iadd", exc |-> r.exc, ref |-> r.ref, new |-> NoneV,
                      value |-> r.value, a |-> i, b |-> j]
    /\ UNCHANGED <<files, saved, shapes>>

Next ==
    \/ \E a \in FuseArgs : NewROI(a, NoneV, NoneV, NoneV, MaxROIs)
    \/ \E list \in SeqsUpTo(DOMAIN rois, MaxList) : FromRois(list)
    \/ \E i \in DOMAIN rois, j \in 0..Len(rois) : IAdd(i, j)

Spec == Init /\ [][Next]_vars

----------------------------------------------------------------------------
(* Inputs of the persistence specification                                 *)

\* a mask of integers, and a mask with no pixel set
MaskI == ndarray("int64", <<1, 2>>, <<0, 2>>)
MaskZ == ndarray("bool", <<1, 2>>, <<0, 0>>)
\* a center polygon given as a mask, and one given as vertices
CenterMask == ndarray("bool", <<1, 2>>, <<0, 1>>)

\* the eight ways to supply or leave out mask, polygon and image_shape
PresenceArgs ==
    { <<m, pg, sh>> : m \in {NoneV, MaskA}, pg \in {NoneV, PolyP}, sh \in {NoneV, ShapeS} }

\* base ROIs with a mask: <<mask, name, slice_idx, info_string>>
MaskedROIs ==
    { <<MaskA, PyStr("a"), PyInt(0), PyStr("i")>>,
      <<MaskA, PyInt(7), PyInt(1), NoneV>>,
      <<MaskA, PyStr("a"), NoneV, PyStr("")>>,
      <<MaskB, NoneV, NoneV, NoneV>>,
      <<MaskI, NoneV, NoneV, NoneV>>,
      <<MaskZ, PyStr("a"), PyInt(0), NoneV>> }

Filters == { NoFilter, NameIs("a"), NameIs("Fan") }

----------------------------------------------------------------------------
(* The persistence specification: construction, save and load              *)

\* the caller's  r = <constructor>(...)  that built o or raised, with room
\* for MaxLive objects; `call` records the call
Constructed(o, call) ==
    /\ IsRaise(o) \/ Len(rois) < MaxLive
    /\ rois' = IF IsRaise(o) THEN rois ELSE Append(rois, o)
    /\ ret' = call @@ [exc |-> IF IsRaise(o) THEN o.exc ELSE "none",
                       ref |-> IF IsRaise(o) THEN 0 ELSE Len(rois) + 1, new |-> NoneV]

NewEllipse(center_poly, view_direction) ==
    /\ Constructed(Ellipse_init(MaskA, NoneV, NoneV, NoneV, PyFloat(0), center_poly,
                                view_direction, NoKwargs),
                   [op |-> "Ellipse"])
    /\ UNCHANGED <<files, saved, shapes>>

NewFan(orientation, view_direction) ==
    /\ Constructed(Fan_init(MaskA, NoneV, NoneV, PyInt(0), orientation, view_direction,
                            PyBool(TRUE), NoKwargs),
                   [op |-> "Fan"])
    /\ UNCHANGED <<files, saved, shapes>>

NewWedgeROI(phase) ==
    /\ Constructed(WedgeROI_init(MaskB, NoneV, NoneV, phase, NoneV, ANTERIOR, NoKwargs),
                   [op |-> "WedgeROI"])
    /\ UNCHANGED <<files, saved, shapes>>

NewColumn(phase) ==
    /\ Constructed(Column_init(MaskB, NoneV, NoneV, phase, NoneV, ANTERIOR, NoKwargs),
                   [op |-> "Column"])
    /\ UNCHANGED <<files, saved, shapes>>

NewGlomerulusROI(pseudophase) ==
    /\ Constructed(GlomerulusROI_init(MaskB, NoneV, NoneV, PyStr("g"), NoneV, pseudophase),
                   [op |-> "GlomerulusROI"])
    /\ UNCHANGED <<files, saved, shapes>>

NewGlobularMustache(phases, mirrored) ==
    /\ Constructed(GlobularMustache_init(NoneV, NoneV, NoneV, PyStr("pb"), NoneV,
                                         PyList(<<MaskA, MaskB>>), phases, POSTERIOR,
                                         mirrored, NoKwargs),
                   [op |-> "GlobularMustache"])
    /\ UNCHANGED <<files, saved, shapes>>

\* rois[i].save(directory)
Save(i) ==
    /\ LET s == save(rois[i])
           path == PathOf(rois[i])
       IN  /\ files' = IF s.wrote THEN WithKey(files, path, s.file) ELSE files
           /\ saved' = IF s.wrote
                        THEN WithKey(saved, path, [obj |-> rois[i], exc |-> s.exc])
                        ELSE saved
           /\ ret' = [op |-> "save", exc |-> s.exc, ref |-> i, new |-> NoneV,
                      wrote |-> s.wrote]
    /\ UNCHANGED <<rois, shapes>>

\* ROI.load(path, filter_condition = flt) of a file of the directory
Load(path, flt) ==
    /\ LET r == load(files[path], flt)
       IN  ret' = [op |-> "load", exc |-> IF IsRaise(r) THEN r.exc ELSE "none",
                   ref |-> 0, new |-> IF IsRaise(r) THEN NoneV ELSE r,
                   path |-> path, flt |-> flt]
    /\ UNCHANGED <<rois, files, saved, shapes>>

NextIO ==
    \/ \E a \in PresenceArgs : NewROI(a, NoneV, NoneV, NoneV, MaxLive)
    \/ \E b \in MaskedROIs : NewROI(<<b[1], NoneV, NoneV>>, b[2], b[3], b[4], MaxLive)
    \/ \E cp \in {NoneV, CenterMask}, vd \in {ANTERIOR, PyStr("posterior")} :
            NewEllipse(cp, vd)
    \/ \E orientation \in {PyFloat(0), NoneV} : NewFan(orientation, POSTERIOR)
    \/ \E phase \in {PyFloat(1), NoneV} : NewWedgeROI(phase)
    \/ \E phase \in {PyFloat(1), NoneV} : NewColumn(phase)
    \/ \E pseudophase \in {PyFloat(1), NoneV} : NewGlomerulusROI(pseudophase)
    \/ \E phases \in {NoneV, PyList(<<PyFloat(0), PyFloat(1)>>)} :
            NewGlobularMustache(phases, PyBool(TRUE))
    \/ \E i \in DOMAIN rois : Save(i)
    \/ \E path \in DOMAIN files, flt \in Filters : Load(path, flt)

SpecIO == Init /\ [][NextIO]_vars

----------------------------------------------------------------------------
(* Inputs of the selection specification                                   *)

\* a triangle in the plane z (in halves) with legs a and b (in halves)
Triangle(z, a, b) == ndarray("float64", <<3, 3>>, <<z, 0, 0, z, 0, a, z, b, 0>>)

\* polygons: a small one on plane 1, a large and a middling one on plane 0,
\* and one drawn halfway between the planes 0 and 1
Polygons == { Triangle(2, 2, 2), Triangle(0, 8, 8), Triangle(0, 4, 4), Triangle(1, 6, 6) }

\* the image of the masks: 2 planes of 1 row and 2 columns
ImageShape == <<2, 1, 2>>

\* masks: one with 1 pixel in plane 0 and 2 in plane 1, one with the 2 pixels
\* of plane 0, one with 1 pixel in plane 1
Masks ==
    { ndarray("bool", ImageShape, <<1, 0, 1, 1>>),
      ndarray("bool", ImageShape, <<1, 1, 0, 0>>),
      ndarray("bool", ImageShape, <<0, 0, 0, 1>>) }

SliceIdxs == { NoneV, PyInt(-1), PyInt(0), PyInt(1) }

----------------------------------------------------------------------------
(* The selection specification: a list of shapes is drawn, and a utility   *)
(* is called on it                                                         *)

InitSel ==
    /\ rois = <<>>
    /\ files = EmptyFn
    /\ saved = EmptyFn
    /\ ret = NoCall
    /\ shapes \in SeqsUpTo(Polygons, MaxShapes) \cup SeqsUpTo(Masks, MaxShapes)

\* nth_largest_shape_in_list(shapes, n = n, slice_idx = slice_idx,
\* image_shape = ImageShape), the sort ordering equal sizes as tb does
NthLargest(n, slice_idx, tb) ==
    /\ ret = NoCall
    /\ LET r == nth_largest_shape_in_list(shapes, n, slice_idx, ImageShape, tb)
       IN  ret' = [op |-> "nth_largest", exc |-> IF IsRaise(r) THEN r.exc ELSE "none",
                   ref |-> 0, new |-> NoneV, n |-> n, slice_idx |-> slice_idx,
                   value |-> IF IsRaise(r) THEN NoneV ELSE r]
    /\ UNCHANGED <<rois, files, saved, shapes>>

\* n_largest_shapes_in_list(shapes, n = n, slice_idx = slice_idx,
\* image_shape = ImageShape)
NLargest(n, slice_idx, tb) ==
    /\ ret = NoCall
    /\ LET r == n_largest_shapes_in_list(shapes, n, slice_idx, ImageShape, tb)
       IN  ret' = [op |-> "n_largest", exc |-> IF IsRaise(r) THEN r.exc ELSE "none",
                   ref |-> 0, new |-> NoneV, n |-> n, slice_idx |-> slice_idx,
                   value |-> IF IsRaise(r) THEN NoneV ELSE r]
    /\ UNCHANGED <<rois, files, saved, shapes>>

NextSel ==
    \/ \E n \in 0..(Len(shapes) + 1), slice_idx \in SliceIdxs,
          tb \in Permutations(1..Len(shapes)) : NthLargest(n, slice_idx, tb)
    \/ \E n \in 0..(Len(shapes) + 1), slice_idx \in SliceIdxs,
          tb \in Permutations(1..Len(shapes)) : NLargest(n, slice_idx, tb)

SpecSel == InitSel /\ [][NextSel]_vars

----------------------------------------------------------------------------
(* The area specification: a polygon is drawn, and polygon_area is called  *)
(* on its vertex list, on a cyclic rotation of it, or on its reverse         *)

\* the points (y, x), in halves of a pixel, a vertex is drawn from
AreaPoints == { <<y, x>> : y \in {0, 2, 3}, x \in {0, 2} }

\* np.array(points), of shape (n, 2)
VertexArray(points) ==
    ndarray("float64", <<Len(points), 2>>,
            [k \in 1..(2 * Len(points)) |-> points[(k + 1) \div 2][2 - (k % 2)]])

\* the rows of an array of vertices
Rows(vertices) ==
    [i \in 1..vertices.shape[1] |->
        [c \in 1..vertices.shape[2] |-> vertices.data[(i - 1) * vertices.shape[2] + c]]]

\* np.roll(vertices, k, axis = 0), and vertices[::-1] when rev
Retraced(vertices, k, rev) ==
    LET n == vertices.shape[1]
        rolled == [i \in 1..n |-> Rows(vertices)[((i - 1 - k) % n) + 1]]
    IN  VertexArray(IF rev THEN Reverse(rolled) ELSE rolled)

\* the unit square (0,0), (1,0), (1,1), (0,1)
UnitSquare == VertexArray(<< <<0, 0>>, <<2, 0>>, <<2, 2>>, <<0, 2>> >>)

InitArea ==
    /\ rois = <<>>
    /\ files = EmptyFn
    /\ saved = EmptyFn
    /\ ret = NoCall
    /\ shapes \in { <<VertexArray(q)>> : q \in SeqsUpTo(AreaPoints, MaxVertices) \ { <<>> } }

\* polygon_area(np.roll(shapes[0], k, axis = 0)), of the reversed list when rev
PolygonArea(k, rev) ==
    /\ ret' = [op |-> "polygon_area", exc |-> "none", ref |-> 0, new |-> NoneV,
               k |-> k, rev |-> rev,
               vertices |-> Retraced(shapes[1], k, rev),
               value |-> polygon_area(Retraced(shapes[1], k, rev))]
    /\ UNCHANGED <<rois, files, saved, shapes>>

NextArea ==
    \E k \in 0..(shapes[1].shape[1] - 1), rev \in BOOLEAN : PolygonArea(k, rev)

SpecArea == InitArea /\ [][NextArea]_vars

----------------------------------------------------------------------------
(* The segmentation specification: an Ellipse or a Fan is constructed, and   *)
(* segment is called on it, any number of times                              *)

Ones(shp) == ndarray("bool", shp, [k \in 1..Product(shp) |-> 1])

\* a filled ellipse, an ellipse with a hole, a stack whose second plane is
\* empty, a plane that is wider than high, and a mask of two dimensions
Disc == Ones(<<1, 3, 3>>)
Ring == ndarray("bool", <<1, 3, 3>>, <<1, 1, 1, 1, 0, 1, 1, 1, 1>>)
Stack == ndarray("bool", <<2, 2, 2>>, <<1, 1, 1, 1, 0, 0, 0, 0>>)
Wide == Ones(<<1, 2, 3>>)
Flat == Ones(<<3, 3>>)
\* the center of an ellipse as a mask, and as a mask of integers
Hole == ndarray("bool", <<1, 3, 3>>, <<0, 0, 0, 0, 1, 0, 0, 0, 0>>)
HoleI == ndarray("int64", <<1, 3, 3>>, <<0, 0, 0, 0, 1, 0, 0, 0, 0>>)
\* fans: an arch, a hook whose lowest row is left of the centroid, a single
\* row, and a stack of empty planes
Arch == ndarray("bool", <<1, 3, 3>>, <<1, 1, 1, 1, 0, 1, 0, 0, 0>>)
Hook == ndarray("bool", <<1, 2, 3>>, <<1, 1, 1, 1, 0, 0>>)
Bar == Ones(<<1, 1, 3>>)
Blank == np_zeros(<<2, 1, 2>>)

\* <<mask, slice_idx>> of the ellipses
EllipseMasks ==
    { <<m, NoneV>> : m \in {Disc, Ring, Stack, Wide, Flat} }
        \cup { <<Flat, PyInt(0)>>, <<Disc, PyInt(0)>> }

Ellipses ==
    { Ellipse_init(ms[1], NoneV, NoneV, ms[2], PyFloat(0), cp, vd, NoKwargs) :
        ms \in EllipseMasks, cp \in {NoneV, Hole, HoleI}, vd \in {ANTERIOR, POSTERIOR} }

Fans ==
    { Fan_init(m, NoneV, NoneV, NoneV, orientation, ANTERIOR, PyBool(mirrored), NoKwargs) :
        m \in {Arch, Hook, Stack, Bar, Wide, Flat, Disc, Blank}, orientation \in {PyFloat(0), NoneV},
        mirrored \in BOOLEAN }

InitSeg ==
    /\ rois \in { <<o>> : o \in Ellipses \cup Fans }
    /\ files = EmptyFn
    /\ saved = EmptyFn
    /\ ret = NoCall
    /\ shapes = <<>>

\* the caller's  rois[1].segment(..), which made r of rois[1] or raised
Segmented(r, call) ==
    /\ rois' = IF IsRaise(r) THEN rois ELSE <<r>>
    /\ ret' = call @@ [exc |-> IF IsRaise(r) THEN r.exc ELSE "none", ref |-> 1,
                       new |-> NoneV]

EllipseSegment(n_segments) ==
    /\ rois[1].cls = "Ellipse"
    /\ Segmented(Ellipse_segment(rois[1], n_segments),
                 [op |-> "Ellipse.segment", n_segments |-> n_segments])
    /\ UNCHANGED <<files, saved, shapes>>

FanSegment(n_segments, method, viewed_from) ==
    /\ rois[1].cls = "Fan"
    /\ Segmented(Fan_segment(rois[1], n_segments, method, viewed_from),
                 [op |-> "Fan.segment", n_segments |-> n_segments, method |-> method,
                  viewed_from |-> viewed_from])
    /\ UNCHANGED <<files, saved, shapes>>

\* <<method, viewed_from>> of the calls of Fan.segment
FanCalls ==
    { <<TRIANGLES, ANTERIOR>>, <<TRIANGLES, POSTERIOR>>,
      <<PyStr("triangles"), PyStr("posterior")>>, <<TRIANGLES, PyStr("sideways")>>,
      <<PyStr("midline"), ANTERIOR>>, <<PyStr("wedges"), ANTERIOR>> }

NextSeg ==
    \/ \E n_segments \in 1..MaxSegments : EllipseSegment(n_segments)
    \/ \E n_segments \in 1..MaxSegments, call \in FanCalls :
            FanSegment(n_segments, call[1], call[2])

SpecSeg == InitSeg /\ [][NextSeg]_vars

----------------------------------------------------------------------------
(* The ordering specification: a GlobularMustache is constructed of the first *)
(* one, two or three masks of a list of glomeruli, and its ordering           *)
(* operations are called                                                      *)

\* a glomerulus of the pixels pts (<<row, column>>, from 0) of a 4 x 5 image
Glom(pts) ==
    ndarray("bool", <<4, 5>>,
            [k \in 1..20 |-> IF <<(k - 1) \div 5, (k - 1) % 5>> \in pts THEN 1 ELSE 0])

\* three glomeruli along a row, at the corners of a triangle, down a column,
\* two of them at one place, and one of them empty
Layouts ==
    { << Glom({<<0, 2>>}), Glom({<<0, 0>>}), Glom({<<0, 4>>}) >>,
      << Glom({<<0, 0>>}), Glom({<<3, 4>>}), Glom({<<3, 0>>}) >>,
      << Glom({<<3, 0>>}), Glom({<<0, 0>>}), Glom({<<1, 0>>}) >>,
      << Glom({<<0, 1>>}), Glom({<<0, 0>>, <<0, 1>>}), Glom({<<0, 1>>}) >>,
      << Glom({<<0, 2>>}), Glom({}), Glom({<<0, 0>>}) >> }

\* the phases of the glomeruli: numbers, or numbers and None (and no list)
PhaseLists ==
    { <<PyFloat(2), PyFloat(0), PyFloat(1)>>,
      <<PyFloat(2), PyFloat(0), PyFloat(0)>>,
      <<PyFloat(1), NoneV, PyFloat(0)>> }

Mustaches ==
    { GlobularMustache_init(NoneV, NoneV, NoneV, PyStr("pb"), NoneV,
                            PyList(SubSeq(layout, 1, n)),
                            IF ph = <<>> THEN NoneV ELSE PyList(SubSeq(ph, 1, n)),
                            POSTERIOR, PyBool(mirrored), NoKwargs) :
        layout \in Layouts, n \in 1..3, mirrored \in BOOLEAN,
        ph \in {<<>>} \cup PhaseLists }

InitSort ==
    /\ rois \in { <<o>> : o \in Mustaches }
    /\ files = EmptyFn
    /\ saved = EmptyFn
    /\ ret = NoCall
    /\ shapes = <<>>

\* the subROIs of rois[1] are left in the order `order`
Reordered(order, exc, call) ==
    /\ rois' = <<[rois[1] EXCEPT !.subROIs = Permuted(rois[1].subROIs, order)]>>
    /\ ret' = call @@ [exc |-> exc, ref |-> 1, new |-> NoneV]

\* rois[1].segment()
MustacheSegment ==
    /\ ret' = [op |-> "GlobularMustache.segment", exc |-> "none", ref |-> 1, new |-> NoneV]
    /\ UNCHANGED <<rois, files, saved, shapes>>

\* rois[1].sort_glomeruli_by_phase()
SortGlomeruliByPhase ==
    /\ \E out \in Sorts(PhaseKeys(rois[1].subROIs), FALSE) :
            Reordered(out.order, out.exc, [op |-> "sort_glomeruli_by_phase"])
    /\ UNCHANGED <<files, saved, shapes>>

\* rois[1].sort_glomeruli_by_center(axis, increasing)
SortGlomeruliByCenter(axis, increasing) ==
    /\ IF BadAxis(rois[1].subROIs, axis)
       THEN /\ ret' = [op |-> "sort_glomeruli_by_center", exc |-> "IndexError", ref |-> 1,
                       new |-> NoneV, axis |-> axis, increasing |-> increasing]
            /\ rois' = rois
       ELSE \E out \in Sorts(CenterKeys(rois[1].subROIs, axis), ~increasing) :
                Reordered(out.order, out.exc,
                          [op |-> "sort_glomeruli_by_center", axis |-> axis,
                           increasing |-> increasing])
    /\ UNCHANGED <<files, saved, shapes>>

\* rois[1].sort_glomeruli_by_snake() where python_tsp is installed and the
\* solver returns `path`
SnakeAlong(path) ==
    /\ rois' = <<[rois[1] EXCEPT !.subROIs =
                    [k \in DOMAIN rois[1].subROIs |-> rois[1].subROIs[Snake(path)[k] + 1]]]>>
    /\ ret' = [op |-> "sort_glomeruli_by_snake", exc |-> "none", ref |-> 1, new |-> NoneV,
               path |-> path]
    /\ UNCHANGED <<files, saved, shapes>>

SortGlomeruliBySnake ==
    \E path \in solve_tsp_dynamic_programming(
                    [i \in DOMAIN rois[1].subROIs |-> center(rois[1].subROIs[i]).items]) :
        SnakeAlong(path)

\* rois[1].sort_glomeruli_by_snake() where python_tsp is not installed: a
\* message is printed
SnakeNotInstalled ==
    /\ ret' = [op |-> "sort_glomeruli_by_snake", exc |-> "none", ref |-> 1, new |-> NoneV,
               path |-> <<>>]
    /\ UNCHANGED <<rois, files, saved, shapes>>

NextSort ==
    \/ MustacheSegment
    \/ SortGlomeruliByPhase
    \/ \E axis \in {-1, 0, 2}, increasing \in BOOLEAN : SortGlomeruliByCenter(axis, increasing)
    \/ SortGlomeruliBySnake
    \/ SnakeNotInstalled

SpecSort == InitSort /\ [][NextSort]_vars

----------------------------------------------------------------------------
(* The extraction specification: shapes are drawn, and use_ellipse is      *)
(* called on them                                                          *)

\* masks of 2 planes of 1 row and 2 columns: one of 1 pixel in plane 0 and 2
\* in plane 1, one of the 2 pixels of plane 0, one of the second pixel of
\* plane 0
Ovals ==
    { ndarray("bool", ImageShape, <<1, 0, 1, 1>>),
      ndarray("bool", ImageShape, <<1, 1, 0, 0>>),
      ndarray("bool", ImageShape, <<0, 1, 0, 0>>) }

\* the masks of an image of 2 planes of 1 pixel
ThinMasks ==
    { ndarray("bool", <<2, 1, 1>>, <<1, 0>>), ndarray("bool", <<2, 1, 1>>, <<0, 1>>) }

\* a polygon on plane 0 and one on plane 1
Outlines == { Triangle(0, 8, 8), Triangle(2, 2, 2) }

\* a line (z, y, x) drawn rightwards, and one drawn downwards
Rightwards == ndarray("float64", <<2, 3>>, <<0, 1, 0, 0, 1, 2>>)
Downwards == ndarray("float64", <<2, 3>>, <<0, 0, 1, 0, 2, 1>>)

\* the anatomy reference, the view direction and the extra_rois of a call
Settings ==
    { [anatomy_reference |-> NoneV, view_direction |-> ANTERIOR, extra_rois |-> CENTER],
      [anatomy_reference |-> PyList(<<>>), view_direction |-> PyStr("posterior"),
       extra_rois |-> NONE],
      [anatomy_reference |-> PyList(<<Rightwards>>), view_direction |-> POSTERIOR,
       extra_rois |-> PyStr("center")],
      [anatomy_reference |-> Downwards, view_direction |-> ANTERIOR, extra_rois |-> NONE] }

InitUse ==
    /\ rois = <<>>
    /\ files = EmptyFn
    /\ saved = EmptyFn
    /\ ret = NoCall
    /\ shapes \in SeqsUpTo(Ovals, MaxShapes) \cup SeqsUpTo(ThinMasks, MaxShapes)
                    \cup SeqsUpTo(Outlines, MaxShapes)

\* reference_frames.shape
ImageOf(list) ==
    IF list # <<>> /\ FROM_MASK(list) THEN list[1].shape ELSE ImageShape

\* r = use_ellipse(shapes, anatomy_reference, image_shape,
\* view_direction = view_direction, slice_idx = slice_idx,
\* extra_rois = extra_rois)
UseEllipse(setting, slice_idx, tb) ==
    /\ ret = NoCall
    /\ Constructed(use_ellipse(shapes, setting.anatomy_reference, ImageOf(shapes),
                               setting.view_direction, slice_idx, setting.extra_rois, tb),
                   [op |-> "use_ellipse", slice_idx |-> slice_idx,
                    extra_rois |-> setting.extra_rois, tb |-> tb])
    /\ UNCHANGED <<files, saved, shapes>>

NextUse ==
    \E setting \in Settings, slice_idx \in SliceIdxs, tb \in Permutations(1..Len(shapes)) :
        UseEllipse(setting, slice_idx, tb)

SpecUse == InitUse /\ [][NextUse]_vars

----------------------------------------------------------------------------
(* The tag specification: a file written where the class of the ROI, or of *)
(* its subROIs, lives under another name is loaded                         *)

\* the module and the class a file may name: those of a class that was
\* defined in a module that is not installed here, and those of a class
\* that the module of this installation does not hold (any more)
Untagged == [kind |-> "kept", module |-> "", class |-> ""]
ForeignTags(cls) ==
    { Untagged,
      [kind |-> "set", module |-> "mylab.rois", class |-> cls],
      [kind |-> "set", module |-> ModuleOf(cls), class |-> "Former" \o cls],
      [kind |-> "set", module |-> "siffroi.roi", class |-> cls] }

\* the file or group f, naming the module and the class of the tag
Tagged(f, tag) ==
    IF tag.kind = "kept" THEN f
    ELSE [f EXCEPT !.attrs = WithKey(WithKey(@, "class", AttrWrite(PyStr(tag.class))),
                                     "module", AttrWrite(PyStr(tag.module)))]

\* the file f, its first subROI tagged too
TaggedFile(f, tag, subtag) ==
    IF Len(f.sub.items) = 0 THEN Tagged(f, tag)
    ELSE [Tagged(f, tag) EXCEPT !.sub.items[1] = Tagged(@, subtag)]

\* the ROIs of the files: a base ROI, an Ellipse and one with its wedges, a
\* Fan and one with its columns, a GlobularMustache
Writers ==
    { ROI_init("ROI", MaskA, NoneV, NoneV, PyStr("a"), PyInt(0), PyList(<<>>), PyStr("i")),
      Ellipse_init(MaskA, NoneV, NoneV, NoneV, PyFloat(0), CenterMask, ANTERIOR, NoKwargs),
      Ellipse_segment(Ellipse_init(Disc, NoneV, NoneV, NoneV, PyFloat(0), Hole, ANTERIOR,
                                   NoKwargs), 2),
      Fan_init(MaskA, NoneV, NoneV, PyInt(0), PyFloat(0), POSTERIOR, PyBool(TRUE), NoKwargs),
      Fan_segment(Fan_init(Arch, NoneV, NoneV, NoneV, PyFloat(0), ANTERIOR, PyBool(FALSE),
                           NoKwargs), 2, TRIANGLES, ANTERIOR),
      GlobularMustache_init(NoneV, NoneV, NoneV, PyStr("pb"), NoneV,
                            PyList(<<MaskA, MaskB>>), PyList(<<PyFloat(0), PyFloat(1)>>),
                            POSTERIOR, PyBool(TRUE), NoKwargs) }

InitTag ==
    /\ rois = <<>>
    /\ saved = EmptyFn
    /\ ret = NoCall
    /\ shapes = <<>>
    /\ \E o \in Writers :
          \E tag \in ForeignTags(o.cls),
             subtag \in IF Len(o.subROIs) = 0 THEN {Untagged}
                         ELSE ForeignTags(o.subROIs[1].cls) :
            /\ save(o).exc = "none"
            /\ files = WithKey(EmptyFn, PathOf(o), TaggedFile(save(o).file, tag, subtag))

NextTag == \E path \in DOMAIN files, flt \in Filters : Load(path, flt)

SpecTag == InitTag /\ [][NextTag]_vars

----------------------------------------------------------------------------
(* The directory specification: two ROIs are constructed, and each is saved  *)
(* to the one directory and loaded from it, any number of times              *)

\* masks of a row of three pixels: the middle one and the whole row have the
\* same center of mass
Spot == ndarray("bool", <<1, 3>>, <<0, 1, 0>>)
Line == ndarray("bool", <<1, 3>>, <<1, 1, 1>>)
Left == ndarray("bool", <<1, 3>>, <<1, 0, 0>>)

\* what is saved: ROIs of one name or of one center, mustaches of glomeruli
\* of different or of equal centers, with and without phases, and an ellipse
\* with its wedges
DirROIs ==
    { ROI_init("ROI", m[1], NoneV, NoneV, PyStr(m[2]), NoneV, PyList(<<>>), NoneV) :
        m \in { <<Spot, "a">>, <<Line, "a">>, <<Line, "b">>, <<Left, "a">> } }
    \cup
    { GlobularMustache_init(NoneV, NoneV, NoneV, PyStr("pb"), NoneV, PyList(g[1]), g[2],
                            POSTERIOR, PyBool(TRUE), NoKwargs) :
        g \in { << <<Left, MaskW>>, PyList(<<PyFloat(0), PyFloat(1)>>) >>,
                << <<Spot, Line>>, PyList(<<PyFloat(0), PyFloat(1)>>) >>,
                << <<Left, MaskW>>, NoneV >> } }
    \cup
    { Ellipse_segment(Ellipse_init(Disc, NoneV, NoneV, NoneV, PyFloat(0), Hole, ANTERIOR,
                                   NoKwargs), 2) }

InitDir ==
    /\ rois \in { <<a, b>> : a, b \in DirROIs }
    /\ files = EmptyFn
    /\ saved = EmptyFn
    /\ ret = NoCall
    /\ shapes = <<>>

NextDir ==
    \/ \E i \in DOMAIN rois : Save(i)
    \/ \E path \in DOMAIN files, flt \in Filters : Load(path, flt)

SpecDir == InitDir /\ [][NextDir]_vars

----------------------------------------------------------------------------
(* The subregion specification: an Ellipse, a Fan or a GlobularMustache is   *)
(* constructed, and segment, fuse and the ordering operations are called on  *)
(* it in any order                                                           *)

\* the glomeruli of the mustaches, and a mask that holds the first of them
\* only
Pair == << Glom({<<0, 0>>}), Glom({<<0, 4>>}) >>

\* an ellipse with a hole, an arch, and mustaches given no mask, a mask that
\* covers the glomeruli and a mask that does not
Regions ==
    { Ellipse_init(Ring, NoneV, NoneV, NoneV, PyFloat(0), cp, ANTERIOR, NoKwargs) :
        cp \in {NoneV, Hole} }
    \cup { Fan_init(Arch, NoneV, NoneV, NoneV, PyFloat(0), ANTERIOR, PyBool(FALSE), NoKwargs) }
    \cup { GlobularMustache_init(m, NoneV, NoneV, PyStr("pb"), NoneV, PyList(Pair),
                                 PyList(<<PyFloat(1), PyFloat(0)>>), POSTERIOR, PyBool(FALSE),
                                 NoKwargs) :
            m \in {NoneV, Glom({<<0, 0>>, <<0, 4>>, <<3, 3>>}), Pair[1]} }

\* the ROIs fused into the region
Others ==
    { ROI_init("ROI", m, NoneV, NoneV, NoneV, NoneV, PyList(<<>>), NoneV) :
        m \in {Hole, Glom({<<3, 0>>})} }

InitSub ==
    /\ rois \in { <<o>> : o \in Regions }
    /\ files = EmptyFn
    /\ saved = EmptyFn
    /\ ret = NoCall
    /\ shapes = <<>>

\* rois[1].fuse(other): the mask of rois[1] becomes the union, which is
\* returned
Fuse(other) ==
    /\ LET m == fuse(rois[1], other)
       IN  /\ rois' = IF IsRaise(m) THEN rois ELSE <<[rois[1] EXCEPT !._mask = m]>>
           /\ ret' = [op |-> "fuse", exc |-> IF IsRaise(m) THEN m.exc ELSE "none",
                      ref |-> 1, new |-> NoneV, value |-> IF IsRaise(m) THEN NoneV ELSE m]
    /\ UNCHANGED <<files, saved, shapes>>

NextSub ==
    \/ \E n_segments \in 1..MaxSegments : EllipseSegment(n_segments)
    \/ \E n_segments \in 1..MaxSegments, viewed_from \in {ANTERIOR, POSTERIOR} :
            FanSegment(n_segments, TRIANGLES, viewed_from)
    \/ \E other \in Others : Fuse(other)
    \/ rois[1].cls = "GlobularMustache" /\ MustacheSegment
    \/ rois[1].cls = "GlobularMustache" /\ SortGlomeruliByPhase
    \/ /\ rois[1].cls = "GlobularMustache"
       /\ \E axis \in {-1, 0}, increasing \in BOOLEAN : SortGlomeruliByCenter(axis, increasing)
    \/ rois[1].cls = "GlobularMustache" /\ SortGlomeruliBySnake

SpecSub == InitSub /\ [][NextSub]_vars

----------------------------------------------------------------------------
(* The placeholder specification: the operations that are not implemented    *)
(* are called next to an ROI                                                  *)

\* noduli.ica: not implemented
ica(frame_data, roi_name, slice_idx, view_direction) == Raise("NotImplementedError")

\* ICA.extract
ICA_extract(frame_data, roi_name, slice_idx, view_direction) ==
    ica(frame_data, roi_name, slice_idx, view_direction)

\* noduli.hemispheres: not implemented
hemispheres(reference_frames, polygon_source, slice_idx) == Raise("NotImplementedError")

\* use_individual_compartments(polygons): its body is `pass`
use_individual_compartments(polygons) == NoneV

\* ManualSegmentation.extract: the view direction is converted, then
\* use_individual_compartments, a function of the one parameter polygons, is
\* called with three positional arguments and the keyword roi_name
ManualSegmentation_extract(reference_frames, these, view_direction, roi_name) ==
    IF IsRaise(ViewDirection(view_direction)) THEN ViewDirection(view_direction)
    ELSE Raise("TypeError")

\* ROIs of a polygon only, an ROI of a mask, and fans with and without columns
Placeheld ==
    { ROI_init("ROI", a[1], a[2], a[3], NoneV, NoneV, PyList(<<>>), NoneV) :
        a \in { <<NoneV, PolyP, NoneV>>, <<NoneV, PolyP, ShapeS>>, <<MaskA, PolyP, NoneV>> } }
    \cup { Fan_init(Arch, NoneV, NoneV, NoneV, PyFloat(0), ANTERIOR, PyBool(FALSE), NoKwargs),
           Fan_init(NoneV, PolyP, NoneV, NoneV, PyFloat(0), ANTERIOR, PyBool(FALSE), NoKwargs) }
    \cup { Fan_segment(Fan_init(Arch, NoneV, NoneV, NoneV, PyFloat(0), ANTERIOR,
                                PyBool(FALSE), NoKwargs), n, TRIANGLES, ANTERIOR) :
            n \in 1..MaxSegments }

InitStub ==
    /\ rois \in { <<o>> : o \in Placeheld }
    /\ files = EmptyFn
    /\ saved = EmptyFn
    /\ ret = NoCall
    /\ shapes = <<>>

\* a call that returned or raised v and has no ROI to change
Called(v, call) ==
    ret' = call @@ [exc |-> IF IsRaise(v) THEN v.exc ELSE "none", ref |-> 0,
                    new |-> IF IsRaise(v) THEN NoneV ELSE v]

\* rois[1].mask
GetMask ==
    /\ rois[1].cls = "ROI"
    /\ Called(mask(rois[1]), [op |-> "mask"])
    /\ UNCHANGED <<rois, files, saved, shapes>>

\* ICA().extract(frame_data, roi_name, slice_idx, view_direction)
IcaExtract(roi_name, slice_idx, view_direction) ==
    /\ Called(ICA_extract(NoneV, roi_name, slice_idx, view_direction),
              [op |-> "ICA.extract", roi_name |-> roi_name, slice_idx |-> slice_idx,
               view_direction |-> view_direction])
    /\ UNCHANGED <<rois, files, saved, shapes>>

\* hemispheres(reference_frames, polygon_source, slice_idx = slice_idx)
Hemispheres(slice_idx) ==
    /\ Called(hemispheres(NoneV, NoneV, slice_idx),
              [op |-> "hemispheres", slice_idx |-> slice_idx])
    /\ UNCHANGED <<rois, files, saved, shapes>>

\* ManualSegmentation().extract(reference_frames, shapes, view_direction, roi_name)
ManualExtract(these, view_direction, roi_name) ==
    /\ Called(ManualSegmentation_extract(NoneV, these, view_direction, roi_name),
              [op |-> "ManualSegmentation.extract", shapes |-> these,
               view_direction |-> view_direction, roi_name |-> roi_name])
    /\ UNCHANGED <<rois, files, saved, shapes>>

NextStub ==
    \/ GetMask
    \/ \E n_segments \in 1..MaxSegments, method \in {MIDLINE, PyStr("midline"), TRIANGLES} :
            FanSegment(n_segments, method, ANTERIOR)
    \/ \E roi_name \in {"Noduli", "n"}, slice_idx \in {NoneV, PyInt(0)},
          view_direction \in {ANTERIOR, POSTERIOR} :
            IcaExtract(roi_name, slice_idx, view_direction)
    \/ \E slice_idx \in {NoneV, PyInt(0)} : Hemispheres(slice_idx)
    \/ \E these \in {PyList(<<>>), PyList(<<MaskA>>), PyList(<<MaskA, MaskB>>)},
          view_direction \in {ANTERIOR, PyStr("posterior"), PyStr("sideways")},
          roi_name \in {"Protocerebral bridge", "pb"} :
            ManualExtract(these, view_direction, roi_name)

SpecStub == InitStub /\ [][NextStub]_vars

----------------------------------------------------------------------------
(* The correlation specification: a FitVonMises protocol; extract opens a    *)
(* FourCorrAnalysis window, callbacks are connected, and windows are done.   *)
(* rois holds the protocol's roi once the attribute is assigned, shapes the  *)
(* windows whose done_clicked is connected (each the view direction and the  *)
(* name its lambda closed over), saved the callbacks connected to            *)
(* events.extracted, in the order of their connection.                       *)

\* EmitterGroup(source, extracted = Event): the events of the group carry
\* the source the group was made with
EmitterGroup(source) == [t |-> "EmitterGroup", source |-> source]

\* ExtractionWithCallback.__init__: the protocol has no attribute `events`
\* yet, and the group is made with no source
ExtractionWithCallback_init(self) == EmitterGroup(NoneV)

\* the object the protocol is, for the events that name it as their source
FitVonMises == [t |-> "protocol", cls |-> "FitVonMises"]

\* self.events.extracted(): the callbacks connected, each
\* lambda event: callback(event.source.roi), are called in the order of
\* their connection; the calls made, and the exception that ended them
extracted(events, callbacks, roi) ==
    IF callbacks = <<>> THEN [calls |-> <<>>, exc |-> "none"]
    ELSE IF events.source = NoneV THEN [calls |-> <<>>, exc |-> "AttributeError"]
    ELSE [calls |-> [i \in DOMAIN callbacks |-> [callback |-> callbacks[i], arg |-> roi]],
          exc |-> "none"]

\* FitVonMises.fca_to_pb for the masks of the window: the roi assigned (or
\* the exception of GlobularMustache), then the emission
fca_to_pb(events, callbacks, glomeruli, view_direction, roi_name) ==
    LET roi == GlobularMustache_init(NoneV, NoneV, NoneV, PyStr(roi_name), NoneV,
                                     PyList(glomeruli), NoneV, view_direction,
                                     PyBool(TRUE), NoKwargs)
    IN  IF IsRaise(roi) THEN [roi |-> NoneV, calls |-> <<>>, exc |-> roi.exc]
        ELSE [roi |-> roi, calls |-> extracted(events, callbacks, roi).calls,
              exc |-> extracted(events, callbacks, roi).exc]

InitFit ==
    /\ rois = <<>>
    /\ files = EmptyFn
    /\ saved = <<>>
    /\ ret = NoCall @@ [calls |-> <<>>]
    /\ shapes = <<>>

\* protocol.extract(frame_data, reference_frames, view_direction, roi_name):
\* a window is opened and its done_clicked connected; nothing is returned
FitExtract(view_direction, roi_name) ==
    /\ Len(shapes) < MaxROIs
    /\ shapes' = IF IsRaise(ViewDirection(view_direction)) THEN shapes
                 ELSE Append(shapes, [view_direction |-> ViewDirection(view_direction),
                                      roi_name |-> roi_name])
    /\ ret' = [op |-> "extract",
               exc |-> IF IsRaise(ViewDirection(view_direction))
                       THEN ViewDirection(view_direction).exc ELSE "none",
               ref |-> 0, new |-> NoneV, calls |-> <<>>]
    /\ UNCHANGED <<rois, files, saved>>

\* protocol.connect_extraction_callback(callback)
ConnectExtractionCallback(callback) ==
    /\ Len(saved) < MaxROIs
    /\ saved' = Append(saved, callback)
    /\ ret' = [op |-> "connect_extraction_callback", exc |-> "none", ref |-> 0,
               new |-> NoneV, calls |-> <<>>]
    /\ UNCHANGED <<rois, files, shapes>>

\* the window w emits done_clicked when its masks are `glomeruli`
DoneClicked(w, glomeruli) ==
    /\ LET r == fca_to_pb(ExtractionWithCallback_init(FitVonMises), saved, glomeruli,
                          shapes[w].view_direction, shapes[w].roi_name)
       IN  /\ rois' = IF r.roi = NoneV THEN rois ELSE <<r.roi>>
           /\ ret' = [op |-> "done_clicked", exc |-> r.exc, ref |-> w, new |-> NoneV,
                      calls |-> r.calls, masks |-> glomeruli]
    /\ UNCHANGED <<files, saved, shapes>>

NextFit ==
    \/ \E view_direction \in {ANTERIOR, PyStr("posterior"), PyStr("sideways")},
          roi_name \in {"Protocerebral bridge", "pb"} : FitExtract(view_direction, roi_name)
    \/ \E callback \in {"f", "g"} : ConnectExtractionCallback(callback)
    \/ \E w \in DOMAIN shapes, glomeruli \in {<<MaskA>>, <<MaskA, MaskB>>} :
            DoneClicked(w, glomeruli)

SpecFit == InitFit /\ [][NextFit]_vars

----------------------------------------------------------------------------
(* The claims                                                              *)

\* C1: a base ROI built from a boolean mask, whatever its name, slice_idx
\* (None included) and info_string, is saved without an exception, and
\* ROI.load of the file written returns an ROI of which the mask is boolean,
\* of the same shape and equal to the saved one's, and of which name,
\* slice_idx and info_string equal the saved ones.
C1_save_load_round_trip ==
    (/\ ret.op = "load"
     /\ ret.flt = NoFilter
     /\ saved[ret.path].obj.cls = "ROI"
     /\ saved[ret.path].obj._mask # NoneV
     /\ saved[ret.path].obj._mask.dtype = "bool")
    => LET old == saved[ret.path].obj
           new == ret.new
       IN  /\ saved[ret.path].exc = "none"
           /\ ret.exc = "none"
           /\ new # NoneV
           /\ new.cls = "ROI"
           /\ mask(new).dtype = "bool"
           /\ mask(new).shape = old._mask.shape
           /\ mask(new).data = old._mask.data
           /\ name(new) = name(old)
           /\ IF old.slice_idx = NoneV THEN new.slice_idx = NoneV
              ELSE new.slice_idx # NoneV /\ new.slice_idx.i = old.slice_idx.i
           /\ IF old.info_string = Unset THEN new.info_string = Unset
              ELSE new.info_string = old.info_string

\* a base ROI with a name, a slice_idx and an info_string came back from load
C1_witness ==
    /\ ret.op = "load"
    /\ ret.flt = NoFilter
    /\ ret.exc = "none"
    /\ saved[ret.path].obj.cls = "ROI"
    /\ saved[ret.path].obj._mask = MaskA
    /\ saved[ret.path].obj._name = PyStr("a")
    /\ saved[ret.path].obj.slice_idx = PyInt(0)
    /\ saved[ret.path].obj.info_string = PyStr("i")
    /\ ret.new.slice_idx = NpInt(0)
    /\ mask(ret.new) = MaskA

\* C2: when the file is one from which load without a filter rebuilds an
\* ROI, load with a filter that is false on that ROI raises NoROIError and
\* returns nothing, and load with a filter that is true on it, or with no
\* filter, returns that ROI.
C2_load_filter ==
    (ret.op = "load" /\ ~IsRaise(load(files[ret.path], NoFilter)))
    => LET roi == load(files[ret.path], NoFilter)
       IN  IF ret.flt.kind = "name_is" /\ name(roi) # ret.flt.s
           THEN ret.exc = "NoROIError" /\ ret.new = NoneV
           ELSE ret.exc = "none" /\ ret.new = roi

\* load of a well-formed file was refused by the filter
C2_witness ==
    /\ ret.op = "load"
    /\ ret.flt = NameIs("Fan")
    /\ ~IsRaise(load(files[ret.path], NoFilter))
    /\ name(load(files[ret.path], NoFilter)) = "a"
    /\ ret.exc = "NoROIError"
    /\ ret.new = NoneV

\* C3: for an ROI of a subtype (Ellipse, Fan, GlobularMustache, WedgeROI,
\* Column, GlomerulusROI), whatever the values of its SAVE_ATTRS attributes,
\* None included, save raises nothing, and load of the file written restores
\* each of these attributes to an equal value (an enumeration member and its
\* string value, a number and its numpy scalar, a tuple and the array of its
\* items count as equal).
C3_subtype_attrs_round_trip ==
    LET Subtypes == {"Ellipse", "Fan", "GlobularMustache", "WedgeROI", "Column",
                     "GlomerulusROI"}
        Val(v) ==
            CASE v.t = "None" -> <<"None">>
              [] v.t \in {"int", "np.int64"} -> <<"number", v.i>>
              [] v.t \in {"float", "np.float64"} -> <<"number", v.x>>
              [] v.t \in {"bool", "np.bool_"} -> <<"bool", v.b>>
              [] v.t = "str" -> <<"str", v.s>>
              [] v.t = "enum" -> <<"str", v.value>>
              [] v.t = "ndarray" -> <<"array", v.shape, v.data>>
              [] v.t = "tuple" ->
                    <<"array", <<Len(v.items)>>,
                      [k \in DOMAIN v.items |->
                          IF IsNumber(v.items[k]) THEN NumberOf(v.items[k]) ELSE 0]>>
    IN  IF ret.op = "save"
        THEN rois[ret.ref].cls \in Subtypes => ret.exc = "none"
        ELSE IF ret.op = "load" /\ ret.flt = NoFilter
                /\ saved[ret.path].obj.cls \in Subtypes /\ saved[ret.path].exc = "none"
        THEN /\ ret.exc = "none"
             /\ ret.new # NoneV
             /\ \A a \in DOMAIN saved[ret.path].obj.attrs :
                    (\E k \in DOMAIN SAVE_ATTRS(saved[ret.path].obj.cls) :
                        SAVE_ATTRS(saved[ret.path].obj.cls)[k] = a)
                    => Val(ret.new.attrs[a]) = Val(saved[ret.path].obj.attrs[a])
        ELSE TRUE

\* C4: ROI(...) with mask, polygon and image_shape all absent raises
\* NoROIError; the caller gets no object and no object is added.
C4_no_roi_error ==
    [][(/\ ret'.op = "ROI"
        /\ ret'.mask = NoneV /\ ret'.polygon = NoneV /\ ret'.image_shape = NoneV)
       => (ret'.exc = "NoROIError" /\ ret'.ref = 0 /\ rois' = rois)]_vars

\* the constructor was called with nothing and raised
C4_witness ==
    /\ ret.op = "ROI"
    /\ ret.mask = NoneV /\ ret.polygon = NoneV /\ ret.image_shape = NoneV
    /\ ret.exc = "NoROIError"
    /\ ret.ref = 0

C7_fixed_slice_nth_largest ==
    LET Candidate(sh) == IF sh.dtype = "bool" THEN np_any(sh, ret.slice_idx.i)
                         ELSE np_round(sh.data[1]) = ret.slice_idx.i
        Size(sh) == IF sh.dtype = "bool" THEN np_sum(sh) ELSE polygon_area(sh)
        cands == { i \in DOMAIN shapes : Candidate(shapes[i]) }
    IN  (/\ ret.op = "nth_largest"
         /\ ret.slice_idx # NoneV
         /\ ret.slice_idx.i >= 0
         /\ ret.n >= 1
         /\ ret.n <= Cardinality(cands))
        => /\ ret.exc = "none"
           /\ \E i \in cands :
                /\ shapes[i] = ret.value
                /\ Cardinality({ j \in cands : Size(shapes[j]) > Size(shapes[i]) }) < ret.n
                /\ Cardinality({ j \in cands : Size(shapes[j]) >= Size(shapes[i]) }) >= ret.n

\* C8: nth_largest_shape_in_list raises ValueError, and returns nothing,
\* whenever the list is empty, n < 1, n exceeds the length of the list, or n
\* exceeds the number of candidates: the shapes of the given slice, or, with
\* no slice given, the shapes of some plane that has any.
C8_invalid_selection_is_value_error ==
    LET Candidates(p) ==
            { i \in DOMAIN shapes :
                IF shapes[i].dtype = "bool" THEN np_any(shapes[i], p)
                ELSE np_round(shapes[i].data[1]) = p }
        exceeds ==
            IF ret.slice_idx = NoneV \/ ret.slice_idx.i < 0
            THEN \E p \in 0..(ImageShape[1] - 1) :
                    Candidates(p) # {} /\ ret.n > Cardinality(Candidates(p))
            ELSE ret.n > Cardinality(Candidates(ret.slice_idx.i))
    IN  (/\ ret.op = "nth_largest"
         /\ (Len(shapes) = 0 \/ ret.n < 1 \/ ret.n > Len(shapes) \/ exceeds))
        => (ret.exc = "ValueError" /\ ret.value = NoneV)

\* C9: what n_largest_shapes_in_list(shapes, n = k) returns is a list of k
\* shapes whose sizes (polygon area, pixel count for a mask) never increase
\* along the list.
C9_n_largest_sizes_non_increasing ==
    LET Size(sh) == IF sh.dtype = "bool" THEN np_sum(sh) ELSE polygon_area(sh)
    IN  (ret.op = "n_largest" /\ ret.exc = "none")
        => /\ Len(ret.value.items) = ret.n
           /\ \A i \in 1..(Len(ret.value.items) - 1) :
                Size(ret.value.items[i]) >= Size(ret.value.items[i + 1])

\* C10: with no slice_idx (None or negative), a list of masks, and n at most
\* the number of masks of every plane that has any, the result is the OR of
\* one mask chosen per plane, the one chosen for a plane being n-th largest,
\* by the number of its pixels within that plane, among the masks that have
\* pixels in that plane (nothing is chosen for a plane without masks).
C10_per_plane_ranking ==
    LET planes == 0..(ImageShape[1] - 1)
        SizeIn(i, p) == SumOver(Plane(shapes[i], p), Len(Plane(shapes[i], p)))
        Candidates(p) == { i \in DOMAIN shapes : np_any(shapes[i], p) }
        Nth(i, p) ==
            /\ i \in Candidates(p)
            /\ Cardinality({ j \in Candidates(p) : SizeIn(j, p) > SizeIn(i, p) }) < ret.n
            /\ Cardinality({ j \in Candidates(p) : SizeIn(j, p) >= SizeIn(i, p) }) >= ret.n
    IN  (/\ ret.op = "nth_largest"
         /\ (ret.slice_idx = NoneV \/ ret.slice_idx.i < 0)
         /\ Len(shapes) > 0
         /\ \A i \in DOMAIN shapes : shapes[i].dtype = "bool"
         /\ ret.n >= 1
         /\ \A p \in planes : Candidates(p) = {} \/ Cardinality(Candidates(p)) >= ret.n)
        => /\ ret.exc = "none"
           /\ \E sel \in [planes -> 0..Len(shapes)] :
                /\ \A p \in planes :
                        IF Candidates(p) = {} THEN sel[p] = 0 ELSE Nth(sel[p], p)
                /\ ret.value =
                        ndarray("bool", ImageShape,
                                [k \in 1..Product(ImageShape) |->
                                    IF \E p \in planes :
                                            sel[p] # 0 /\ shapes[sel[p]].data[k] # 0
                                    THEN 1 ELSE 0])

\* C11: polygon_area is never negative and is the shoelace sum over the last
\* two coordinates of the vertices (here in eighths of a square pixel: half
\* the absolute value of the sum of x[i] * y[i+1] - x[i+1] * y[i] around the
\* polygon); it is 1 for the unit square; and the area of a vertex list
\* rotated cyclically or traversed backwards is the area of the list itself.
C11_polygon_area ==
    ret.op = "polygon_area"
    => LET v == ret.vertices
           n == v.shape[1]
           x == [i \in 1..n |-> v.data[2 * i]]
           y == [i \in 1..n |-> v.data[2 * i - 1]]
           nxt == [i \in 1..n |-> (i % n) + 1]
           sum == SumOver([i \in 1..n |-> x[i] * y[nxt[i]] - x[nxt[i]] * y[i]], n)
       IN  /\ ret.value >= 0
           /\ ret.value = Abs(sum)
           /\ ret.value = polygon_area(shapes[1])
           /\ shapes[1] = UnitSquare => ret.value = 8

\* the area of the unit square, begun at another corner and traced backwards
C11_witness ==
    /\ ret.op = "polygon_area"
    /\ shapes[1] = UnitSquare
    /\ ret.k = 1
    /\ ret.rev
    /\ ret.vertices # UnitSquare
    /\ ret.value = 8

\* C12: after every call of Ellipse.segment(n_segments) that returns, whatever
\* segment calls were made before and for either view direction, the ellipse
\* has exactly n_segments wedges, no pixel is in two wedges, and the wedges
\* together are the parent mask, except possibly for the pixels whose
\* rotated angle is exactly +pi.  (Violated: for the posterior view the
\* pixel at the center has the angle nan and is in no wedge.)
C12_wedges_partition_the_ellipse ==
    (ret.op = "Ellipse.segment" /\ ret.exc = "none") =>
        LET e == rois[1]
            w == e.subROIs
            nd == Len(e._mask.shape)
            center_pt(k) ==
                IF e.slice_idx = NoneV THEN SliceCenter(e, Coord(e._mask.shape, k, 1))
                ELSE IF e.attrs["center_poly"] = NoneV THEN center_of_mass(e._mask)
                ELSE center_of_mass(e.attrs["center_poly"])
            at_pi(k) ==
                RotatedAngle(Coord(e._mask.shape, k, nd - 1), Coord(e._mask.shape, k, nd),
                             center_pt(k), e.attrs["view_direction"]) = Pi(2)
        IN  /\ Len(w) = ret.n_segments
            /\ \A i \in DOMAIN w : w[i]._mask.shape = e._mask.shape
            /\ \A i, j \in DOMAIN w : \A k \in DOMAIN e._mask.data :
                    i # j => w[i]._mask.data[k] = 0 \/ w[j]._mask.data[k] = 0
            /\ \A k \in DOMAIN e._mask.data :
                    /\ (\E i \in DOMAIN w : w[i]._mask.data[k] # 0) => e._mask.data[k] # 0
                    /\ (e._mask.data[k] # 0 /\ ~at_pi(k))
                            => \E i \in DOMAIN w : w[i]._mask.data[k] # 0

\* C13 (as stated): after Ellipse.segment(n_segments) the i-th wedge (from 0)
\* carries the phase i * 2 * pi / n_segments, the i-th of n_segments equally
\* spaced values from 0 to before 2 * pi (an Ellipse has no mirrored flag to
\* reverse them).  (Violated: the first wedge carries -pi.)
C13_wedge_phases_from_zero ==
    (ret.op = "Ellipse.segment" /\ ret.exc = "none") =>
        \A i \in DOMAIN rois[1].subROIs :
            rois[1].subROIs[i].attrs["phase"]
                = NpFloat(((i - 1) * TurnUnits) \div ret.n_segments)

\* C13 (amended): after Ellipse.segment(n_segments) the i-th wedge (from 0)
\* carries the phase -pi + i * 2 * pi / n_segments, the i-th of n_segments
\* equally spaced values from -pi to before pi, which is the lower boundary
\* of its bin; the order is never reversed, an Ellipse having no mirrored flag
C13_wedge_phases_from_minus_pi ==
    (ret.op = "Ellipse.segment" /\ ret.exc = "none") =>
        /\ "mirrored" \notin DOMAIN rois[1].attrs
        /\ Len(rois[1].subROIs) = ret.n_segments
        /\ \A i \in DOMAIN rois[1].subROIs :
            /\ rois[1].subROIs[i].cls = "WedgeROI"
            /\ rois[1].subROIs[i].attrs["phase"]
                = NpFloat(((i - 1) * TurnUnits) \div ret.n_segments - TurnUnits \div 2)

\* four wedges were made of the filled ellipse: phases -pi, -pi/2, 0, pi/2
C13_witness ==
    /\ ret.op = "Ellipse.segment" /\ ret.exc = "none" /\ ret.n_segments = 4
    /\ rois[1]._mask = Disc
    /\ [i \in 1..4 |-> rois[1].subROIs[i].attrs["phase"].x] = <<-30, -15, 0, 15>>

\* C14: Fan.segment by the triangles method, on a fan whose mask is a stack
\* of planes, whose orientation is a number and for a valid view direction,
\* returns and leaves exactly n_segments Columns, each of the shape of the
\* mask; in a plane of the mask that is entirely empty every column is
\* empty, and a mask whose planes are all empty is segmented without raising
\* even when the orientation is None or the view direction is not valid,
\* neither being looked at when no centroid and no hub is computed
C14_triangles_columns ==
    (/\ ret.op = "Fan.segment"
     /\ FanSegmentationMethod(ret.method) = TRIANGLES
     /\ Len(rois[1]._mask.shape) = 3) =>
        LET f == rois[1]
            empty(q) == \A k \in DOMAIN Plane(f._mask, q) : Plane(f._mask, q)[k] = 0
            planes == 0..(f._mask.shape[1] - 1)
        IN  /\ (\/ /\ f.attrs["orientation"].t = "float"
                   /\ ~IsRaise(ViewDirection(ret.viewed_from))
                \/ \A q \in planes : empty(q)) => ret.exc = "none"
            /\ ret.exc = "none" =>
                /\ Len(f.subROIs) = ret.n_segments
                /\ \A i \in DOMAIN f.subROIs :
                    /\ f.subROIs[i].cls = "Column"
                    /\ f.subROIs[i]._mask.shape = f._mask.shape
                    /\ \A q \in planes : empty(q) =>
                        \A k \in DOMAIN Plane(f._mask, q) :
                            Plane(f.subROIs[i]._mask, q)[k] = 0

\* a fan whose second plane is empty was cut in three columns, which share
\* the four pixels of the first plane
C14_witness ==
    /\ ret.op = "Fan.segment" /\ ret.exc = "none" /\ ret.n_segments = 3
    /\ rois[1]._mask = Stack
    /\ Len(rois[1].subROIs) = 3
    /\ \E i \in 1..3 : \E k \in 1..4 : rois[1].subROIs[i]._mask.data[k] = 1
    /\ \A i \in 1..3 : \A k \in 5..8 : rois[1].subROIs[i]._mask.data[k] = 0

\* C15: after Fan.segment(n_segments) the phase of the i-th Column (from 0)
\* is a scalar, the i-th of the n_segments equally spaced values
\* k * 2 * pi / n_segments, k = 0 .. n_segments - 1, taken in reverse when the
\* fan is mirrored.  (Violated: Column.__init__ stores the one-element tuple
\* (phase,) and not the scalar.)
C15_column_phase_is_scalar ==
    (ret.op = "Fan.segment" /\ ret.exc = "none") =>
        \A i \in DOMAIN rois[1].subROIs :
            rois[1].subROIs[i].attrs["phase"]
                = NpFloat(IF rois[1].attrs["mirrored"].b
                          THEN ((ret.n_segments - i) * TurnUnits) \div ret.n_segments
                          ELSE ((i - 1) * TurnUnits) \div ret.n_segments)

\* C16: a call of sort_glomeruli_by_phase or of sort_glomeruli_by_center
\* leaves a permutation of the subROIs it found.  When every pseudophase is a
\* number, sort_glomeruli_by_phase returns with the pseudophases in ascending
\* order; when every glomerulus has a center (no mask is empty) and the
\* centers have the axis, sort_glomeruli_by_center returns with the
\* coordinates of the centers along the axis in ascending order, or in
\* descending order with increasing = False
C16_sorts_order_the_glomeruli ==
    [][LET before == rois[1].subROIs
           after == rois'[1].subROIs
           coordinate(g) ==
               center(g).items[IF ret'.axis < 0 THEN Len(center(g).items) + 1 + ret'.axis
                               ELSE ret'.axis + 1]
       IN  /\ ret'.op \in {"sort_glomeruli_by_phase", "sort_glomeruli_by_center"} =>
               /\ Len(after) = Len(before)
               /\ \E q \in Perms(Len(after)) : \A i \in DOMAIN after : after[i] = before[q[i]]
           /\ (/\ ret'.op = "sort_glomeruli_by_phase"
               /\ \A i \in DOMAIN before : before[i].attrs["pseudophase"] # NoneV) =>
                   /\ ret'.exc = "none"
                   /\ \A i, j \in DOMAIN after : i < j =>
                       after[i].attrs["pseudophase"].x <= after[j].attrs["pseudophase"].x
           /\ (/\ ret'.op = "sort_glomeruli_by_center"
               /\ ret'.axis \in {-2, -1, 0, 1}
               /\ \A i \in DOMAIN before : \E k \in 1..20 : before[i]._mask.data[k] # 0) =>
                   /\ ret'.exc = "none"
                   /\ \A i, j \in DOMAIN after : i < j =>
                       IF ret'.increasing
                       THEN coordinate(after[i])[1] * coordinate(after[j])[2]
                               <= coordinate(after[j])[1] * coordinate(after[i])[2]
                       ELSE coordinate(after[i])[1] * coordinate(after[j])[2]
                               >= coordinate(after[j])[1] * coordinate(after[i])[2]]_vars

\* three glomeruli, which were made in the order of the columns 2, 0, 4 or
\* 4, 0, 2 of a row, were put in the descending order of their columns
C16_witness ==
    /\ ret.op = "sort_glomeruli_by_center" /\ ret.exc = "none"
    /\ ret.axis = -1 /\ ~ret.increasing
    /\ Len(rois[1].subROIs) = 3
    /\ [i \in 1..3 |-> center(rois[1].subROIs[i]).items[2]] = << <<4, 1>>, <<2, 1>>, <<0, 1>> >>

\* C17: where python_tsp is installed, sort_glomeruli_by_snake leaves a
\* permutation of the subROIs it found (the depot is no part of it); when
\* every glomerulus has a center, no order of the glomeruli makes a shorter
\* path through the centers than the order it leaves; and when the centers
\* are distinct points of one line, the order runs along the line in one
\* direction, wherever the depot was in the cycle of the solver
C17_snake_is_shortest_path ==
    [][(ret'.op = "sort_glomeruli_by_snake" /\ ret'.path # <<>>) =>
        LET before == rois[1].subROIs
            after == rois'[1].subROIs
            n == Len(after)
            c == [i \in 1..n |-> [ax \in 1..2 |-> Halves(center(after[i]).items[ax])]]
            length(q) == SumOver([i \in 1..(n - 1) |->
                                    norm(center(after[q[i]]).items,
                                         center(after[q[i + 1]]).items)], n - 1)
            cross(i, j, k) == (c[j][1] - c[i][1]) * (c[k][2] - c[i][2])
                                - (c[j][2] - c[i][2]) * (c[k][1] - c[i][1])
            along(i) == (c[i + 1][1] - c[i][1]) * (c[i + 2][1] - c[i + 1][1])
                            + (c[i + 1][2] - c[i][2]) * (c[i + 2][2] - c[i + 1][2])
        IN  /\ ret'.exc = "none"
            /\ n = Len(before)
            /\ \E q \in Perms(n) : \A i \in 1..n : after[i] = before[q[i]]
            /\ (\A i \in 1..n : \E k \in 1..20 : after[i]._mask.data[k] # 0) =>
                /\ \A q \in Perms(n) : length([i \in 1..n |-> i]) <= length(q)
                /\ (/\ \A i, j \in 1..n : i # j => c[i] # c[j]
                    /\ \A i, j, k \in 1..n : cross(i, j, k) = 0) =>
                        \A i \in 1..(n - 2) : along(i) > 0]_vars

\* three glomeruli of the columns 0, 2 and 4 of a row are in the order of
\* their columns, the solver having returned a cycle that neither begins
\* nor ends at the depot
C17_witness ==
    /\ ret.op = "sort_glomeruli_by_snake" /\ ret.path = <<0, 2, 3, 1>>
    /\ [i \in 1..3 |-> center(rois[1].subROIs[i]).items[2][1]] = <<0, 2, 4>>

\* C18: use_ellipse raises ValueError and constructs no Ellipse when no
\* candidate shape is supplied, and when extra_rois = CENTER is requested
\* with fewer than two candidate shapes; with extra_rois = CENTER and at
\* least two mask candidates it returns an Ellipse.
C18_use_ellipse_domain_errors ==
    ret.op = "use_ellipse" =>
        /\ Len(shapes) = 0 => (ret.exc = "ValueError" /\ rois = <<>>)
        /\ (ExtraRois(ret.extra_rois) = CENTER /\ Len(shapes) < 2) =>
                (ret.exc = "ValueError" /\ rois = <<>>)
        /\ (ExtraRois(ret.extra_rois) = CENTER /\ Len(shapes) >= 2 /\ FROM_MASK(shapes)) =>
                (ret.exc = "none" /\ ret.ref = 1 /\ rois[1].cls = "Ellipse")

\* C19 as stated: in mask mode with extra_rois = CENTER and all planes
\* considered, the center_poly of the Ellipse returned is the union over the
\* planes of the plane's second-largest candidate intersected with the main
\* ellipse (so it lies within the main ellipse selected), and the mask is
\* the main ellipse minus the center mask, disjoint from it.
C19_center_within_main ==
    (/\ ret.op = "use_ellipse"
     /\ ExtraRois(ret.extra_rois) = CENTER
     /\ NormalSlice(ret.slice_idx) = NoneV
     /\ FROM_MASK(shapes)
     /\ Len(shapes) >= 2) =>
        LET n == Len(shapes)
            size == [i \in 1..n |-> np_sum(shapes[i])]
            above(i, j) == size[j] > size[i] \/ (size[j] = size[i] /\ ret.tb[j] > ret.tb[i])
            cand(p) == { i \in 1..n : np_any(shapes[i], p) }
            nth(p, r) == { i \in cand(p) : Cardinality({ j \in cand(p) : above(i, j) }) = r - 1 }
            planes == 0..(ImageOf(shapes)[1] - 1)
            main(k) == \E p \in planes : \E i \in nth(p, 1) : shapes[i].data[k] # 0
            meets(i) == \E k \in DOMAIN shapes[i].data : shapes[i].data[k] # 0 /\ main(k)
            ctr(k) == \E p \in planes : \E i \in nth(p, 2) : shapes[i].data[k] # 0 /\ main(k)
        IN  /\ ret.exc = "none"
            /\ \A k \in 1..Product(ImageOf(shapes)) :
                    /\ (rois[1].attrs.center_poly.data[k] # 0) = ctr(k)
                    /\ (rois[1]._mask.data[k] # 0) = (main(k) /\ ~ctr(k))
                    /\ rois[1].attrs.center_poly.data[k] # 0 => main(k)
                    /\ ~(rois[1].attrs.center_poly.data[k] # 0 /\ rois[1]._mask.data[k] # 0)

\* C19, amended: in mask mode with extra_rois = CENTER and all planes
\* considered, the center_poly of the Ellipse returned is the union over the
\* planes of the plane's second-largest candidate, taken whole, of the
\* planes where that candidate has a pixel in common with the main ellipse
\* (the union over the planes of the plane's largest candidate); the mask
\* is the main ellipse minus the center mask, disjoint from it.
C19_center_is_whole_second_largest ==
    (/\ ret.op = "use_ellipse"
     /\ ExtraRois(ret.extra_rois) = CENTER
     /\ NormalSlice(ret.slice_idx) = NoneV
     /\ FROM_MASK(shapes)
     /\ Len(shapes) >= 2) =>
        LET n == Len(shapes)
            size == [i \in 1..n |-> np_sum(shapes[i])]
            above(i, j) == size[j] > size[i] \/ (size[j] = size[i] /\ ret.tb[j] > ret.tb[i])
            cand(p) == { i \in 1..n : np_any(shapes[i], p) }
            nth(p, r) == { i \in cand(p) : Cardinality({ j \in cand(p) : above(i, j) }) = r - 1 }
            planes == 0..(ImageOf(shapes)[1] - 1)
            main(k) == \E p \in planes : \E i \in nth(p, 1) : shapes[i].data[k] # 0
            meets(i) == \E k \in DOMAIN shapes[i].data : shapes[i].data[k] # 0 /\ main(k)
            ctr(k) == \E p \in planes : \E i \in nth(p, 2) : shapes[i].data[k] # 0 /\ meets(i)
        IN  /\ ret.exc = "none"
            /\ rois[1].cls = "Ellipse"
            /\ \A k \in 1..Product(ImageOf(shapes)) :
                    /\ (rois[1].attrs.center_poly.data[k] # 0) = ctr(k)
                    /\ (rois[1]._mask.data[k] # 0) = (main(k) /\ ~ctr(k))
                    /\ ~(rois[1].attrs.center_poly.data[k] # 0 /\ rois[1]._mask.data[k] # 0)

\* an Ellipse was returned in that mode of which the center mask has a
\* pixel, and a pixel is left to the mask
C19_witness ==
    /\ ret.op = "use_ellipse"
    /\ ExtraRois(ret.extra_rois) = CENTER
    /\ NormalSlice(ret.slice_idx) = NoneV
    /\ FROM_MASK(shapes)
    /\ Len(shapes) >= 2
    /\ ret.exc = "none"
    /\ any(rois[1].attrs.center_poly)
    /\ any(rois[1]._mask)

\* C20: ROI.load never fails because the stored type tag cannot be resolved:
\* whenever the stored module or the stored class name, of the ROI or of one
\* of its subROIs, does not resolve to an available type, load returns an
\* ROI, the record with that tag reconstructed as the generic ROI
\* (respectively the generic subROI).
C20_unresolved_tag_loads_generic ==
    (ret.op = "load" /\ ret.flt = NoFilter) =>
        LET f == files[ret.path]
            unresolved(g) ==
                \/ AttrRead(g.attrs["module"]).s \notin KnownModules
                \/ AttrRead(g.attrs["class"]).s \notin NamesOf(AttrRead(g.attrs["module"]).s)
        IN  (unresolved(f) \/ \E i \in DOMAIN f.sub.items : unresolved(f.sub.items[i])) =>
                /\ ret.exc = "none"
                /\ unresolved(f) => ret.new.cls = "ROI"
                /\ \A i \in DOMAIN f.sub.items :
                        unresolved(f.sub.items[i]) => ret.new.subROIs[i].cls = "subROI"

\* C27: ROI.from_rois applied to a list of two or more ROIs leaves every
\* ROI of the list unchanged: after the call the mask of each, the first
\* included, equals its mask before the call.
C27_from_rois_leaves_inputs ==
    [][(ret'.op = "from_rois" /\ Len(ret'.list) >= 2) =>
        \A i \in 1..Len(ret'.list) : rois'[ret'.list[i]]._mask = rois[ret'.list[i]]._mask
    ]_vars

\* C30: after  a += b  of two ROIs the name a still refers to the same
\* object, whose mask is the logical OR of the masks a and b had before,
\* while the mask of b and the subROIs, name and slice_idx of a are
\* unchanged.
C30_iadd_keeps_the_object ==
    [][(/\ ret'.op = "iadd"
        /\ ret'.b # 0
        /\ ret'.b # ret'.a
        /\ ~IsRaise(fuse(rois[ret'.a], rois[ret'.b]))) =>
        /\ ret'.exc = "none"
        /\ ret'.ref = ret'.a
        /\ rois'[ret'.a]._mask = np_logical_or(mask(rois[ret'.a]), mask(rois[ret'.b]))
        /\ rois'[ret'.b]._mask = rois[ret'.b]._mask
        /\ rois'[ret'.a].subROIs = rois[ret'.a].subROIs
        /\ rois'[ret'.a]._name = rois[ret'.a]._name
        /\ rois'[ret'.a].slice_idx = rois[ret'.a].slice_idx
    ]_vars

\* C29: segment_ellipse returns, for every 2-D mask of any height and width
\* (square or not), n_segments masks of the shape of the mask, the pixel at
\* row r and column c assigned according to its offset (c, r) from the
\* center.  Here for the planes of an ellipse that is a stack of planes,
\* the center of a plane being its center of mass: segment returns, and
\* wedge i holds the pixels of the mask whose angle lies in the bin i.
C29_any_plane_is_segmented ==
    (/\ ret.op = "Ellipse.segment"
     /\ rois[1].slice_idx = NoneV
     /\ Len(rois[1]._mask.shape) = 3
     /\ rois[1].attrs["center_poly"] = NoneV) =>
        LET e == rois[1]
            w == e.subROIs
            n == ret.n_segments
            turns(k) ==
                AngleTimes(n, RotatedAngle(Coord(e._mask.shape, k, 2),
                                           Coord(e._mask.shape, k, 3),
                                           SliceCenter(e, Coord(e._mask.shape, k, 1)),
                                           e.attrs["view_direction"]))
        IN  /\ ret.exc = "none"
            /\ Len(w) = n
            /\ \A i \in DOMAIN w : w[i]._mask.shape = e._mask.shape
            /\ \A i \in DOMAIN w : \A k \in DOMAIN e._mask.data :
                    (w[i]._mask.data[k] # 0) =
                        (/\ e._mask.data[k] # 0
                         /\ AngleLeq(Pi(2 * (i - 1)), turns(k))
                         /\ AngleLess(turns(k), Pi(2 * i)))

\* C25: in the triangles segmentation of a non-empty plane the
\* n_segments + 1 bin boundaries are equally spaced between the minimum and
\* the maximum of the hub-relative angles of the pixels of the mask only:
\* column i holds the pixels of the mask whose angle lies from boundary i - 1
\* to before boundary i of lo + i * (hi - lo) / n_segments, lo and hi being
\* the least and the greatest angle found in the mask.
C25_boundaries_from_mask_pixels ==
    (/\ ret.op = "Fan.segment"
     /\ ret.exc = "none"
     /\ FanSegmentationMethod(ret.method) = TRIANGLES
     /\ Len(rois[1]._mask.shape) = 3) =>
        LET f == rois[1]
            n == ret.n_segments
        IN  \A q \in 0..(f._mask.shape[1] - 1) :
                LET plane == Slice(f._mask, q)
                    inside == { k \in DOMAIN plane.data : plane.data[k] # 0 }
                    angles == HubAngles(plane, center_of_mass(plane),
                                        MostDownward(plane, center_of_mass(plane)),
                                        ViewDirection(ret.viewed_from))
                    lo == angles[CHOOSE k \in inside :
                                    \A j \in inside : AngleLeq(angles[k], angles[j])]
                    hi == angles[CHOOSE k \in inside :
                                    \A j \in inside : AngleLeq(angles[j], angles[k])]
                IN  inside # {} =>
                        \A i \in 1..n : \A k \in DOMAIN plane.data :
                            (Slice(f.subROIs[i]._mask, q).data[k] # 0) =
                                (/\ k \in inside
                                 /\ AngleLeq(AngleTimes(i - 1, AngleDiff(hi, lo)),
                                             AngleTimes(n, AngleDiff(angles[k], lo)))
                                 /\ AngleLess(AngleTimes(n, AngleDiff(angles[k], lo)),
                                              AngleTimes(i, AngleDiff(hi, lo))))

\* C28: after the triangles segmentation of a non-empty plane the columns
\* partition the mask of the plane: every pixel of the mask, those of the
\* greatest hub-relative angle included, is in exactly one column, and no
\* column has a pixel out of the mask.
C28_columns_partition_the_plane ==
    (/\ ret.op = "Fan.segment"
     /\ ret.exc = "none"
     /\ FanSegmentationMethod(ret.method) = TRIANGLES
     /\ Len(rois[1]._mask.shape) = 3) =>
        LET f == rois[1]
        IN  \A k \in DOMAIN f._mask.data :
                Cardinality({ i \in DOMAIN f.subROIs : f.subROIs[i]._mask.data[k] # 0 })
                    = IF f._mask.data[k] # 0 THEN 1 ELSE 0

\* C22: the name save writes under is made of the class name and a hash of
\* the name and of the contents of the mask: the save of a Region leaves
\* alone the file of every Region of the same class saved before that
\* differs from it in name or in mask, and the subregions of a Region whose
\* masks differ get different group names.
C22_saves_do_not_collide ==
    [][(ret'.op = "save" /\ ret'.wrote) =>
        LET o == rois[ret'.ref]
        IN  /\ \A p \in DOMAIN saved :
                    (/\ saved[p].obj.cls = o.cls
                     /\ \/ name(saved[p].obj) # name(o)
                        \/ mask(saved[p].obj) # mask(o))
                    => /\ p \in DOMAIN files'
                       /\ files'[p] = files[p]
                       /\ saved'[p] = saved[p]
            /\ \A i, j \in DOMAIN o.subROIs :
                    mask(o.subROIs[i]) # mask(o.subROIs[j])
                    => hashname(o.subROIs[i]) # hashname(o.subROIs[j])]_vars

\* C24: a Region with subregions is saved without an exception, and load
\* of the file written returns a Region with as many subregions, in the
\* order they had when saved, each of the class, the mask and the SAVE_ATTRS
\* attributes of the one saved (a number and its numpy scalar, a tuple and
\* the array of its items count as equal), and none with subregions of its
\* own.
C24_subregions_round_trip ==
    (/\ ret.op = "load"
     /\ ret.flt = NoFilter
     /\ Len(saved[ret.path].obj.subROIs) > 0) =>
        LET old == saved[ret.path].obj
            new == ret.new
            Val(v) ==
                CASE v.t = "None" -> <<"None">>
                  [] v.t \in {"int", "np.int64"} -> <<"number", v.i>>
                  [] v.t \in {"float", "np.float64"} -> <<"number", v.x>>
                  [] v.t \in {"bool", "np.bool_"} -> <<"bool", v.b>>
                  [] v.t = "str" -> <<"str", v.s>>
                  [] v.t = "enum" -> <<"str", v.value>>
                  [] v.t = "ndarray" -> <<"array", v.shape, v.data>>
                  [] v.t = "tuple" ->
                        <<"array", <<Len(v.items)>>,
                          [k \in DOMAIN v.items |->
                              IF IsNumber(v.items[k]) THEN NumberOf(v.items[k]) ELSE 0]>>
        IN  /\ saved[ret.path].exc = "none"
            /\ ret.exc = "none"
            /\ new # NoneV
            /\ Len(new.subROIs) = Len(old.subROIs)
            /\ \A i \in DOMAIN old.subROIs :
                    /\ new.subROIs[i].cls = old.subROIs[i].cls
                    /\ mask(new.subROIs[i]).shape = mask(old.subROIs[i]).shape
                    /\ mask(new.subROIs[i]).data = mask(old.subROIs[i]).data
                    /\ new.subROIs[i].subROIs = <<>>
                    /\ \A k \in DOMAIN SAVE_ATTRS(old.subROIs[i].cls) :
                            Val(new.subROIs[i].attrs[SAVE_ATTRS(old.subROIs[i].cls)[k]])
                                = Val(old.subROIs[i].attrs[SAVE_ATTRS(old.subROIs[i].cls)[k]])

\* C21: in every state reached by constructing a region (a GlobularMustache
\* given both a mask and the masks of its glomeruli included) and calling
\* segment, fuse and the ordering operations on it in any order, the mask of
\* every subregion is a subset of the mask of the region.
C21_subregions_within_region ==
    \A i \in DOMAIN rois[1].subROIs :
        \A k \in DOMAIN mask(rois[1]).data :
            mask(rois[1].subROIs[i]).data[k] # 0 => mask(rois[1]).data[k] # 0

\* C23: every operation that is left unimplemented (the mask of an ROI that
\* has only a polygon, Fan.segment by the midline, the ICA protocol, the
\* hemispheres of the noduli, and the extraction of ManualSegmentation for a
\* valid view direction) raises NotImplementedError, returns nothing, and
\* leaves the ROI and its subregions as they were.
C23_placeholders_raise_not_implemented ==
    [][(\/ ret'.op = "mask" /\ rois[1]._mask = NoneV
        \/ ret'.op = "Fan.segment" /\ FanSegmentationMethod(ret'.method) = MIDLINE
        \/ ret'.op \in {"ICA.extract", "hemispheres"}
        \/ /\ ret'.op = "ManualSegmentation.extract"
           /\ ~IsRaise(ViewDirection(ret'.view_direction)))
       => /\ ret'.exc = "NotImplementedError"
          /\ ret'.new = NoneV
          /\ rois' = rois]_vars

\* C26: extract of FitVonMises returns nothing and assigns no roi; the roi
\* is assigned only when a window is done; a callback is called only when
\* the roi is assigned; and when a window is done, every callback connected
\* before is called exactly once, with the GlobularMustache made of the
\* masks of that window, which is the roi of the protocol.
C26_callbacks_get_the_roi ==
    [][/\ ret'.op = "extract" => (ret'.new = NoneV /\ rois' = rois)
       /\ rois' # rois => ret'.op = "done_clicked"
       /\ ret'.calls # <<>> => rois' # <<>>
       /\ (/\ ret'.op = "done_clicked"
           /\ ~IsRaise(GlobularMustache_init(NoneV, NoneV, NoneV,
                                             PyStr(shapes[ret'.ref].roi_name), NoneV,
                                             PyList(ret'.masks), NoneV,
                                             shapes[ret'.ref].view_direction, PyBool(TRUE),
                                             NoKwargs)))
          => /\ ret'.exc = "none"
             /\ Len(rois') = 1
             /\ [i \in DOMAIN rois'[1].subROIs |-> rois'[1].subROIs[i]._mask] = ret'.masks
             /\ name(rois'[1]) = shapes[ret'.ref].roi_name
             /\ Len(ret'.calls) = Len(saved)
             /\ \A i \in DOMAIN saved :
                    ret'.calls[i] = [callback |-> saved[i], arg |-> rois'[1]]]_vars

====
